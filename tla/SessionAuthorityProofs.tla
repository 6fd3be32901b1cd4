----------------------- MODULE SessionAuthorityProofs -----------------------
(***************************************************************************)
(* Proofs about SessionAuthority for any number of workers, batches,       *)
(* epochs and blocks.                                                      *)
(***************************************************************************)
EXTENDS SessionAuthority, TLAPS

(* The process has what each of its steps reads: a record once it is open, *)
(* a head once the chain is recovered, a pending head while it commits.    *)
VolatileShape ==
    /\ pc # "down" => own \in Ownership
    /\ pc \notin {"down", "opened"} => head \in SessionHead
    /\ pc \in {"intent", "signed", "committed"} => own.pending_head \in SessionHead

TypeInv == TypeOK /\ VolatileShape

(* Unless a write failed, memory is what is on disk. *)
Synced ==
    /\ uncertain => pc = "idle"
    /\ pc # "down" /\ ~uncertain => epochs = own
    /\ pc \notin {"down", "opened"} /\ ~uncertain => chain = head

(* A pending head is one block beyond the watermark. *)
OneStep(o) ==
    /\ Len(o.pending_head) = Len(o.canonical_head) + 1
    /\ IsInitial(o.canonical_head, o.pending_head)

(* Where the watermark and the pending head are at each step of commit. *)
WatermarkProtocol ==
    /\ Serving \/ pc = "certify" =>
          own.pending_head = NoHead /\ own.canonical_head = head
    /\ pc \in {"intent", "signed"} => own.canonical_head = head /\ OneStep(own)
    /\ pc = "committed" => own.pending_head = head /\ OneStep(own)
    /\ pc = "certify" => Len(head) > 0

(* Whatever write failed, the record on disk has this form. *)
DiskProtocol ==
    epochs # NoOwnership /\ epochs.pending_head # NoHead => OneStep(epochs)

(* A receipt repeats the stamp of the block it certifies. *)
ReceiptShape ==
    \A c \in certs :
        /\ Len(c.head) > 0
        /\ c.epoch = c.head[Len(c.head)].epoch
        /\ c.owner = c.head[Len(c.head)].owner

IInv ==
    /\ TypeInv
    /\ Synced
    /\ WatermarkProtocol
    /\ DiskProtocol
    /\ CertifiedBelowWatermark
    /\ ReceiptShape

-----------------------------------------------------------------------------
(* Facts about the operators. *)

LEMMA NewOwnershipType == NewOwnership \in Ownership
BY DEF NewOwnership, Ownership, initial_head, SessionHead

LEMMA ReconciledType ==
    ASSUME NEW o \in Ownership, NEW h \in SessionHead
    PROVE  Reconciled(o, h) \in Ownership
BY ZenonT(30) DEF Reconciled, Ownership

LEMMA GrantedType ==
    ASSUME NEW o \in Ownership, NEW g \in WriterGrant
    PROVE  /\ [o EXCEPT !.grants = Append(o.grants, g)] \in Ownership
           /\ [o EXCEPT !.grants = Append(o.grants, g)].grants = Append(o.grants, g)
           /\ [o EXCEPT !.grants = Append(o.grants, g)].canonical_head = o.canonical_head
           /\ [o EXCEPT !.grants = Append(o.grants, g)].pending_head = o.pending_head
<1>1. Append(o.grants, g) \in Seq(WriterGrant)
  BY DEF Ownership
<1> HIDE DEF WriterGrant
<1> QED
  BY SMTT(30), <1>1 DEF Ownership

LEMMA AppendBlockType ==
    ASSUME NEW h \in SessionHead, NEW b \in Block
    PROVE  /\ Append(h, b) \in SessionHead
           /\ Len(Append(h, b)) = Len(h) + 1
           /\ IsInitial(h, Append(h, b))
           /\ Append(h, b)[Len(h) + 1] = b
BY DEF SessionHead, IsInitial

LEMMA InitialTransitive ==
    ASSUME NEW r \in SessionHead, NEW s \in SessionHead, NEW t \in SessionHead,
           IsInitial(r, s), IsInitial(s, t)
    PROVE  IsInitial(r, t)
BY DEF IsInitial, SessionHead

LEMMA InitialReflexive ==
    ASSUME NEW s \in SessionHead
    PROVE  IsInitial(s, s)
BY DEF IsInitial, SessionHead

(* Two initial parts of one history with the same length are equal. *)
LEMMA InitialUnique ==
    ASSUME NEW r \in SessionHead, NEW s \in SessionHead, NEW t \in SessionHead,
           IsInitial(r, t), IsInitial(s, t), Len(r) = Len(s)
    PROVE  r = s
BY DEF IsInitial, SessionHead

LEMMA PrefixInitial ==
    ASSUME NEW s \in SessionHead, NEW n \in 1..Len(s)
    PROVE  /\ SubSeq(s, 1, n) \in SessionHead
           /\ Len(SubSeq(s, 1, n)) = n
           /\ IsInitial(SubSeq(s, 1, n), s)
           /\ SubSeq(s, 1, n)[n] = s[n]
<1>1. n \in Nat /\ n <= Len(s) /\ Len(s) \in Nat
  BY DEF SessionHead
<1>2. SubSeq(s, 1, n) \in Seq(Block) /\ Len(SubSeq(s, 1, n)) = n
  BY <1>1 DEF SessionHead
<1>3. \A i \in 1..n : SubSeq(s, 1, n)[i] = s[i]
  BY <1>1, <1>2 DEF SessionHead
<1> QED
  BY <1>1, <1>2, <1>3 DEF SessionHead, IsInitial

(* A receipt is about a stored block and repeats the stamp inside it. *)
LEMMA ReceiptFacts ==
    ASSUME chain \in SessionHead, own \in Ownership, NEW n \in 1..Len(chain),
           NEW r \in Receipts(own, n)
    PROVE  /\ r \in CanonicalReceipt
           /\ IsInitial(r.head, chain)
           /\ Len(r.head) = n
           /\ r.epoch = r.head[n].epoch
           /\ r.owner = r.head[n].owner
<1>1. PICK e \in 1..Len(own.grants) :
        /\ check_stamp(chain[n], own.grants[e])
        /\ r = [epoch |-> own.grants[e].epoch, owner |-> own.grants[e].owner,
                head |-> SubSeq(chain, 1, n)]
  BY DEF Receipts
<1>2. own.grants[e] \in WriterGrant
  BY <1>1 DEF Ownership
<1> QED
  BY <1>1, <1>2, PrefixInitial DEF CanonicalReceipt, WriterGrant, check_stamp

-----------------------------------------------------------------------------
(* Type correctness. *)

LEMMA TypeInit == Init => TypeInv
<1> SUFFICES ASSUME Init PROVE TypeInv
  OBVIOUS
<1>1. initial_head \in SessionHead
  BY DEF initial_head, SessionHead
<1>2. genesis \in BOOLEAN /\ uncertain \in BOOLEAN
  BY ZenonT(30) DEF Init
<1>3. /\ chain \in SessionHead
      /\ epochs \in Ownership \cup {NoOwnership}
      /\ pc \in PCs
      /\ own \in Ownership \cup {NoOwnership}
      /\ head \in SessionHead \cup {NoHead}
      /\ certs \subseteq CanonicalReceipt
      /\ backups \subseteq SessionHead
  BY <1>1 DEF Init, PCs
<1>4. VolatileShape
  BY SMTT(30) DEF Init, VolatileShape
<1> QED
  BY <1>2, <1>3, <1>4 DEF TypeInv, TypeOK

LEMMA TypeStep == IInv /\ [NextWithRestore]_vars => TypeInv'
<1> SUFFICES ASSUME TypeInv, IInv, [NextWithRestore]_vars PROVE TypeInv'
  BY DEF IInv
<1> USE DEF TypeInv, TypeOK, VolatileShape, PCs
<1>1. CASE Crash
  BY ZenonT(30), <1>1 DEF Crash, Stop, durable
<1>2. CASE OpenOwnership
  BY ZenonT(30), <1>2, NewOwnershipType DEF OpenOwnership, Stop, PersistFails
<1>3. CASE OpenChain
  BY ZenonT(30), <1>3 DEF OpenChain, Stop
<1>4. CASE OpenReconcile
  BY ZenonT(30), <1>4, ReconciledType DEF OpenReconcile, Stop, PersistFails
<1>5. CASE OpenRefused
  BY ZenonT(30), <1>5 DEF OpenRefused, Stop, durable
<1>6. CASE CommitSeal
  BY ZenonT(30), <1>6 DEF CommitSeal, Abandon, durable
<1>7. CASE CommitCanonical
  BY ZenonT(30), <1>7 DEF CommitCanonical, Abandon
<1>8. CASE CommitWatermark
  BY ZenonT(30), <1>8, ReconciledType DEF CommitWatermark, Abandon, PersistFails
<1>9. CASE CommitReply
  <2>1. own \in Ownership /\ head = chain /\ Len(head) \in 1..Len(chain)
    BY <1>9 DEF CommitReply, IInv, Synced, WatermarkProtocol, SessionHead
  <2>2. Receipts(own, Len(head)) \subseteq CanonicalReceipt
    BY <2>1, ReceiptFacts
  <2> QED
    BY <1>9, <2>2 DEF CommitReply, durable
<1>10. ASSUME NEW n \in 1..MaxHeight, CertifyStored(n) PROVE TypeInv'
  <2>1. Receipts(own, n) \subseteq CanonicalReceipt
    BY <1>10, ReceiptFacts DEF CertifyStored, Serving
  <2> QED
    BY <1>10, <2>1 DEF CertifyStored, durable, volatile
<1>11. ASSUME NEW e \in 0..MaxEpochs, NEW w \in Workers, NEW h \in KnownHeads,
              Grant(e, w, h)
       PROVE  TypeInv'
  <2> DEFINE grant == [epoch |-> e + 1, owner |-> w, anchor |-> h]
             next  == [own EXCEPT !.grants = Append(own.grants, grant)]
  <2>1. head \in SessionHead /\ own \in Ownership /\ h = head
    BY <1>11 DEF Grant, Serving
  <2>2. grant \in WriterGrant
    BY <2>1, BoundsAssumption DEF WriterGrant
  <2>3. next \in Ownership /\ next.pending_head = own.pending_head
    BY <2>1, <2>2, GrantedType
  <2>4. \/ epochs' = next /\ own' = next /\ uncertain' = uncertain
        \/ epochs' \in {epochs, next} /\ uncertain' = TRUE /\ own' = own
    BY <1>11 DEF Grant, PersistFails
  <2> HIDE DEF next
  <2> QED
    BY ZenonT(30), <1>11, <2>1, <2>3, <2>4 DEF Grant, Serving
<1>12. ASSUME NEW e \in 1..MaxEpochs, NEW w \in Workers, NEW h \in KnownHeads,
              NEW b \in Batches, CommitIntent(e, w, h, b)
       PROVE  TypeInv'
  <2> DEFINE block == [epoch |-> e, owner |-> w, batch |-> b]
             next  == [own EXCEPT !.pending_head = Append(head, block)]
  <2>1. head \in SessionHead /\ own \in Ownership
    BY <1>12 DEF CommitIntent, Serving
  <2>2. block \in Block
    BY BoundsAssumption DEF Block
  <2>3. next \in Ownership /\ next.pending_head \in SessionHead
    BY ZenonT(30), <2>1, <2>2, AppendBlockType DEF Ownership
  <2>4. \/ epochs' = next /\ own' = next /\ pc' = "intent" /\ uncertain' = uncertain
        \/ epochs' \in {epochs, next} /\ uncertain' = TRUE /\ own' = own /\ pc' = pc
    BY <1>12 DEF CommitIntent, PersistFails
  <2> QED
    BY ZenonT(30), <1>12, <2>1, <2>3, <2>4 DEF CommitIntent, Serving
<1>13. ASSUME NEW copy \in backups, RestoreStore(copy) PROVE TypeInv'
  BY <1>13 DEF RestoreStore, volatile
<1>14. CASE UNCHANGED vars
  BY <1>14 DEF vars
<1> QED
  BY <1>1, <1>2, <1>3, <1>4, <1>5, <1>6, <1>7, <1>8, <1>9, <1>10, <1>11, <1>12,
     <1>13, <1>14 DEF NextWithRestore, Next, Step

-----------------------------------------------------------------------------
(* The inductive invariant. *)

LEMMA IInvInit == Init => IInv
BY TypeInit DEF Init, IInv, Synced, WatermarkProtocol, DiskProtocol, Serving,
                CertifiedBelowWatermark, ReceiptShape

(* Resolving a pending head that is on disk keeps the certified history    *)
(* below the watermark.                                                    *)
LEMMA ReconciledFacts ==
    ASSUME NEW o \in Ownership, NEW h \in SessionHead, PendingAdmissible(o, h),
           o.pending_head # NoHead => OneStep(o)
    PROVE  /\ Reconciled(o, h).canonical_head = h
           /\ Reconciled(o, h).pending_head = NoHead
           /\ Reconciled(o, h).grants = o.grants
           /\ IsInitial(o.canonical_head, h)
<1>1. CASE o.pending_head = NoHead
  <2>1. o.canonical_head = h
    BY <1>1, AbsentAssumption DEF PendingAdmissible
  <2> QED
    BY <1>1, <2>1, InitialReflexive DEF Reconciled
<1>2. CASE o.pending_head # NoHead
  <2>1. Reconciled(o, h) = [o EXCEPT !.canonical_head = h, !.pending_head = NoHead]
    BY <1>2 DEF Reconciled
  <2>2. o.canonical_head \in SessionHead
    BY ZenonT(30) DEF Ownership
  <2>3. IsInitial(o.canonical_head, h)
    BY ZenonT(30), <1>2, <2>2, InitialReflexive DEF PendingAdmissible, OneStep
  <2> QED
    BY ZenonT(30), <2>1, <2>3 DEF Ownership
<1> QED BY <1>1, <1>2

LEMMA IInvStep == IInv /\ [NextWithRestore]_vars => IInv'
<1> SUFFICES ASSUME IInv, [NextWithRestore]_vars PROVE IInv'
  OBVIOUS
<1>0. TypeInv /\ TypeInv'
  BY TypeStep DEF IInv
<1> DEFINE Rest == /\ Synced
                   /\ WatermarkProtocol
                   /\ DiskProtocol
                   /\ CertifiedBelowWatermark
                   /\ ReceiptShape
<1> SUFFICES Rest'
  BY <1>0 DEF IInv
<1> USE DEF Synced, WatermarkProtocol, DiskProtocol, Serving
<1>t. /\ Rest
      /\ epochs \in Ownership \cup {NoOwnership}
      /\ chain \in SessionHead
      /\ NoOwnership \notin Ownership /\ NoHead \notin SessionHead
  BY AbsentAssumption DEF IInv, TypeInv, TypeOK
<1>1. CASE Crash
  BY <1>1, <1>t DEF Crash, Stop, durable, CertifiedBelowWatermark, ReceiptShape
<1>2. CASE OpenOwnership
  BY <1>2, <1>t DEF OpenOwnership, Stop, PersistFails, NewOwnership,
                    CertifiedBelowWatermark, ReceiptShape
<1>3. CASE OpenChain
  BY <1>3, <1>t DEF OpenChain, Stop, CertifiedBelowWatermark, ReceiptShape
<1>4. CASE OpenReconcile
  <2>1. own \in Ownership /\ head \in SessionHead /\ epochs = own /\ chain = head
    BY <1>0, <1>4, <1>t DEF OpenReconcile, TypeInv, VolatileShape
  <2> DEFINE next == Reconciled(own, head)
  <2>2. /\ next \in Ownership
        /\ next.canonical_head = head
        /\ next.pending_head = NoHead
        /\ IsInitial(own.canonical_head, head)
    BY <1>4, <1>t, <2>1, ReconciledType, ReconciledFacts DEF OpenReconcile
  <2>3. epochs' \in {epochs, next}
    BY <1>4 DEF OpenReconcile, PersistFails
  <2>4. CertifiedBelowWatermark'
    <3>1. \A c \in certs : IsInitial(c.head, own.canonical_head) /\ c.head \in SessionHead
      BY <1>0, <1>t, <2>1 DEF CertifiedBelowWatermark, TypeInv, TypeOK, CanonicalReceipt
    <3>2. \A c \in certs : IsInitial(c.head, head)
      BY <2>1, <2>2, <3>1, InitialTransitive DEF Ownership
    <3> QED
      BY <1>4, <1>t, <2>1, <2>2, <2>3, <3>2 DEF OpenReconcile, CertifiedBelowWatermark
  <2>5. ReceiptShape'
    BY <1>4, <1>t DEF OpenReconcile, ReceiptShape
  <2> HIDE DEF next
  <2>6. DiskProtocol'
    BY <1>t, <2>1, <2>2, <2>3
  <2>7. \/ epochs' = next /\ own' = next /\ pc' = "idle" /\ head' = head
           /\ uncertain' = uncertain /\ chain' = chain
        \/ Stop
    BY <1>4 DEF OpenReconcile, next
  <2>8. Synced' /\ WatermarkProtocol'
    BY <1>4, <1>t, <2>1, <2>2, <2>7 DEF OpenReconcile, Stop
  <2> QED
    BY <2>4, <2>5, <2>6, <2>8
<1>5. CASE OpenRefused
  BY <1>5, <1>t DEF OpenRefused, Stop, durable, CertifiedBelowWatermark, ReceiptShape
<1>6. CASE CommitSeal
  BY SMTT(30), <1>6, <1>t DEF CommitSeal, Abandon, durable, CertifiedBelowWatermark, ReceiptShape
<1>7. CASE CommitCanonical
  BY <1>7, <1>t DEF CommitCanonical, Abandon, CertifiedBelowWatermark, ReceiptShape
<1>8. CASE CommitWatermark
  <2>1. /\ own \in Ownership /\ head \in SessionHead /\ epochs = own /\ chain = head
        /\ own.pending_head = head /\ OneStep(own)
    BY <1>0, <1>8, <1>t DEF CommitWatermark, TypeInv, VolatileShape
  <2> DEFINE next == Reconciled(own, head)
  <2>2. /\ next \in Ownership
        /\ next.canonical_head = head
        /\ next.pending_head = NoHead
        /\ IsInitial(own.canonical_head, head)
    BY <1>8, <2>1, ReconciledType, ReconciledFacts DEF CommitWatermark
  <2>3. epochs' \in {epochs, next} /\ certs' = certs
    BY <1>8 DEF CommitWatermark, PersistFails
  <2>4. CertifiedBelowWatermark'
    <3>1. \A c \in certs : IsInitial(c.head, own.canonical_head) /\ c.head \in SessionHead
      BY SMTT(30), <1>0, <1>t, <2>1 DEF CertifiedBelowWatermark, TypeInv, TypeOK, CanonicalReceipt
    <3>2. \A c \in certs : IsInitial(c.head, head)
      BY SMTT(30), <2>1, <2>2, <3>1, InitialTransitive DEF Ownership
    <3> QED
      BY <1>t, <2>1, <2>2, <2>3, <3>2 DEF CertifiedBelowWatermark
  <2>5. ReceiptShape'
    BY <1>t, <2>3 DEF ReceiptShape
  <2> HIDE DEF next
  <2>6. DiskProtocol'
    BY <1>t, <2>1, <2>2, <2>3
  <2>7. \/ epochs' = next /\ own' = next /\ pc' = "certify" /\ uncertain' = uncertain
        \/ Abandon /\ own' = own
    BY <1>8 DEF CommitWatermark, next
  <2>8. Len(head) > 0
    BY SMTT(30), <2>1 DEF OneStep, Ownership, SessionHead
  <2>9. Synced' /\ WatermarkProtocol'
    BY SMTT(30), <1>8, <1>t, <2>1, <2>2, <2>7, <2>8 DEF CommitWatermark, Abandon
  <2> QED
    BY <2>4, <2>5, <2>6, <2>9
<1>9. ASSUME NEW n \in 1..Len(chain), own \in Ownership, own = epochs, own.canonical_head = chain,
             certs' = certs \cup Receipts(own, n), epochs' = epochs
      PROVE  CertifiedBelowWatermark' /\ ReceiptShape'
  <2>1. \A r \in Receipts(own, n) :
           /\ IsInitial(r.head, chain)
           /\ Len(r.head) > 0
           /\ r.epoch = r.head[Len(r.head)].epoch
           /\ r.owner = r.head[Len(r.head)].owner
    BY <1>9, <1>t, ReceiptFacts DEF SessionHead
  <2> QED
    BY <1>9, <1>t, <2>1 DEF CertifiedBelowWatermark, ReceiptShape
<1>10. CASE CommitReply
  <2>1. /\ own \in Ownership /\ own = epochs /\ own.canonical_head = chain
        /\ head = chain /\ Len(head) \in 1..Len(chain)
    BY <1>0, <1>10, <1>t DEF CommitReply, TypeInv, VolatileShape, SessionHead
  <2>2. CertifiedBelowWatermark' /\ ReceiptShape'
    BY <1>9, <1>10, <2>1 DEF CommitReply, durable
  <2> QED
    BY SMTT(30), <1>10, <1>t, <2>2 DEF CommitReply, durable
<1>11. ASSUME NEW n \in 1..MaxHeight, CertifyStored(n) PROVE Rest'
  <2>1. /\ own \in Ownership /\ own = epochs /\ own.canonical_head = chain
        /\ n \in 1..Len(chain)
    BY <1>0, <1>11, <1>t DEF CertifyStored, TypeInv, VolatileShape
  <2>2. CertifiedBelowWatermark' /\ ReceiptShape'
    BY <1>9, <1>11, <2>1 DEF CertifyStored, durable
  <2> QED
    BY <1>11, <1>t, <2>2 DEF CertifyStored, durable, volatile
<1>12. ASSUME NEW e \in 0..MaxEpochs, NEW w \in Workers, NEW h \in KnownHeads,
              Grant(e, w, h)
       PROVE  Rest'
  <2> DEFINE grant == [epoch |-> e + 1, owner |-> w, anchor |-> h]
             next  == [own EXCEPT !.grants = Append(own.grants, grant)]
  <2>1. /\ own \in Ownership /\ head \in SessionHead /\ h = head /\ epochs = own
        /\ chain = head /\ own.canonical_head = head /\ own.pending_head = NoHead
    BY <1>0, <1>12, <1>t DEF Grant, TypeInv, VolatileShape
  <2>2. grant \in WriterGrant
    BY <2>1, BoundsAssumption DEF WriterGrant
  <2>3. /\ next \in Ownership
        /\ next.canonical_head = own.canonical_head
        /\ next.pending_head = own.pending_head
    BY <2>1, <2>2, GrantedType
  <2>4. \/ epochs' = next /\ own' = next /\ uncertain' = uncertain
        \/ epochs' \in {epochs, next} /\ uncertain' = TRUE /\ own' = own
    BY <1>12 DEF Grant, PersistFails
  <2> HIDE DEF next
  <2> QED
    BY SMTT(30), <1>12, <1>t, <2>1, <2>3, <2>4 DEF Grant, CertifiedBelowWatermark, ReceiptShape
<1>13. ASSUME NEW e \in 1..MaxEpochs, NEW w \in Workers, NEW h \in KnownHeads,
              NEW b \in Batches, CommitIntent(e, w, h, b)
       PROVE  Rest'
  <2> DEFINE block == [epoch |-> e, owner |-> w, batch |-> b]
             next  == [own EXCEPT !.pending_head = Append(head, block)]
  <2>1. /\ own \in Ownership /\ head \in SessionHead /\ epochs = own
        /\ chain = head /\ own.canonical_head = head /\ own.pending_head = NoHead
    BY <1>0, <1>13, <1>t DEF CommitIntent, TypeInv, VolatileShape
  <2>2. block \in Block
    BY BoundsAssumption DEF Block
  <2>3. /\ next \in Ownership
        /\ next.canonical_head = head
        /\ next.pending_head \in SessionHead
        /\ OneStep(next)
    BY ZenonT(30), <2>1, <2>2, AppendBlockType DEF Ownership, OneStep
  <2>4. \/ epochs' = next /\ own' = next /\ pc' = "intent" /\ uncertain' = uncertain
        \/ epochs' \in {epochs, next} /\ uncertain' = TRUE /\ own' = own /\ pc' = pc
    BY <1>13 DEF CommitIntent, PersistFails
  <2> HIDE DEF next
  <2>5. CertifiedBelowWatermark' /\ ReceiptShape'
    BY SMTT(30), <1>13, <1>t, <2>1, <2>3, <2>4
       DEF CommitIntent, CertifiedBelowWatermark, ReceiptShape
  <2> QED
    BY <1>13, <1>t, <2>1, <2>3, <2>4, <2>5 DEF CommitIntent
<1>14. ASSUME NEW copy \in backups, RestoreStore(copy) PROVE Rest'
  BY SMTT(30), <1>14, <1>t DEF RestoreStore, volatile, CertifiedBelowWatermark, ReceiptShape
<1>15. CASE UNCHANGED vars
  BY <1>15, <1>t DEF vars, CertifiedBelowWatermark, ReceiptShape
<1> QED
  BY ZenonT(30), <1>1, <1>2, <1>3, <1>4, <1>5, <1>6, <1>7, <1>8, <1>10, <1>11, <1>12,
     <1>13, <1>14, <1>15 DEF NextWithRestore, Next, Step

-----------------------------------------------------------------------------
(* Type correctness of the authority, also when stores are restored. *)
THEOREM TypeCorrect == SpecWithRestore => []TypeOK
<1>1. Init => IInv
  BY IInvInit
<1>2. IInv /\ [NextWithRestore]_vars => IInv'
  BY IInvStep
<1>3. IInv => TypeOK
  BY DEF IInv, TypeInv
<1> QED
  BY <1>1, <1>2, <1>3, PTL DEF SpecWithRestore

(* No certificate outruns the durable watermark: whatever crashes, failed  *)
(* writes and restored copies of the canonical store a session goes        *)
(* through, what commit and canonical_receipt handed out is below it.      *)
THEOREM CertificatesBelowWatermark == SpecWithRestore => []CertifiedBelowWatermark
<1>1. Init => IInv
  BY IInvInit
<1>2. IInv /\ [NextWithRestore]_vars => IInv'
  BY IInvStep
<1>3. IInv => CertifiedBelowWatermark
  BY DEF IInv
<1> QED
  BY <1>1, <1>2, <1>3, PTL DEF SpecWithRestore

(* A serving authority still has every block it ever certified: open       *)
(* accepts only the watermark or the pending step beyond it.               *)
THEOREM CertifiedHistoryRetained == SpecWithRestore => []CertifiedRetained
<1>1. Init => IInv
  BY IInvInit
<1>2. IInv /\ [NextWithRestore]_vars => IInv'
  BY IInvStep
<1>3. IInv => CertifiedRetained
  <2> SUFFICES ASSUME IInv, Serving, NEW c \in certs PROVE IsInitial(c.head, head)
    BY DEF CertifiedRetained
  <2>1. epochs = own /\ own.canonical_head = head
    BY DEF IInv, Synced, WatermarkProtocol, Serving
  <2> QED
    BY <2>1 DEF IInv, CertifiedBelowWatermark
<1> QED
  BY <1>1, <1>2, <1>3, PTL DEF SpecWithRestore

(* No height is ever certified with two different blocks or writers. *)
THEOREM CertificatesAgree == SpecWithRestore => []OneCertificatePerHeight
<1>1. Init => IInv
  BY IInvInit
<1>2. IInv /\ [NextWithRestore]_vars => IInv'
  BY IInvStep
<1>3. IInv => OneCertificatePerHeight
  <2> SUFFICES ASSUME IInv, NEW c \in certs, NEW d \in certs, Len(c.head) = Len(d.head)
               PROVE  c = d
    BY DEF OneCertificatePerHeight
  <2>1. /\ epochs \in Ownership
        /\ IsInitial(c.head, epochs.canonical_head)
        /\ IsInitial(d.head, epochs.canonical_head)
    BY DEF IInv, CertifiedBelowWatermark, TypeInv, TypeOK
  <2>2. c \in CanonicalReceipt /\ d \in CanonicalReceipt
    BY DEF IInv, TypeInv, TypeOK
  <2>3. c.head = d.head
    BY <2>1, <2>2, InitialUnique DEF Ownership, CanonicalReceipt
  <2>4. c.epoch = d.epoch /\ c.owner = d.owner
    BY SMTT(30), <2>3 DEF IInv, ReceiptShape
  <2> QED
    BY <2>2, <2>3, <2>4 DEF CanonicalReceipt
<1> QED
  BY <1>1, <1>2, <1>3, PTL DEF SpecWithRestore

(* What the authority certified is one history, which it keeps through     *)
(* crashes, failed writes and stores restored from older copies.           *)
THEOREM HistoryCertified == SpecWithRestore => []CertifiedHistory
  BY CertificatesBelowWatermark, CertifiedHistoryRetained, CertificatesAgree, PTL
     DEF CertifiedHistory

-----------------------------------------------------------------------------
(* Recovery and the ledger, as long as nobody replaces the canonical store. *)

(* A durable intent is a block of the newest writer with fresh commands.   *)
PendingStamped(o) ==
    /\ Len(o.grants) > 0
    /\ \E b \in Batches :
          /\ b \cap Committed(o.canonical_head) = {}
          /\ o.pending_head = Append(o.canonical_head,
                [epoch |-> Len(o.grants), owner |-> o.grants[Len(o.grants)].owner, batch |-> b])

(* The record o and the history h pass open, and what is pending in o is a *)
(* block the audit will accept.                                            *)
Reopens(o, h) ==
    IF o = NoOwnership
    THEN h = initial_head
    ELSE /\ audit(o, h)
         /\ PendingAdmissible(o, h)
         /\ o.pending_head # NoHead => PendingStamped(o)

LedgerInv == IInv /\ Reopens(epochs, chain)

(* The audit accepts the next block of the newest writer: all grants are   *)
(* anchored in the history, so the newest has begun.                       *)
LEMMA AuditNextBlock ==
    ASSUME NEW o \in Ownership, NEW h \in SessionHead, audit(o, h), NEW b \in Block,
           Len(o.grants) > 0, b.epoch = Len(o.grants), b.owner = o.grants[Len(o.grants)].owner
    PROVE  audit(o, Append(h, b))
<1> DEFINE t == Append(h, b)
<1>1. /\ t \in SessionHead /\ Len(t) = Len(h) + 1 /\ IsInitial(h, t) /\ t[Len(h) + 1] = b
  BY AppendBlockType
<1>2. Len(o.grants) \in Nat /\ Len(h) \in Nat /\ \A e \in 1..Len(o.grants) : o.grants[e] \in WriterGrant
  BY SMTT(30) DEF Ownership, SessionHead
<1>3. ASSUME NEW e \in 1..Len(o.grants)
      PROVE  /\ o.grants[e].epoch = e
             /\ IsInitial(o.grants[e].anchor, t)
             /\ e > 1 => first_height(o.grants[e - 1]) <= first_height(o.grants[e])
  <2>1. o.grants[e].anchor \in SessionHead
    BY <1>2 DEF WriterGrant
  <2>2. IsInitial(o.grants[e].anchor, h)
    BY DEF audit
  <2>3. IsInitial(o.grants[e].anchor, t)
    BY SMTT(30), <1>1, <2>1, <2>2, InitialTransitive
  <2> QED
    BY <2>3 DEF audit
<1>4. ASSUME NEW n \in 1..Len(t)
      PROVE  \E e \in 1..Len(o.grants) : IsGrantFor(o, e, n) /\ check_stamp(t[n], o.grants[e])
  <2>1. CASE n \in 1..Len(h)
    <3>1. t[n] = h[n]
      BY <1>1, <2>1 DEF IsInitial
    <3> QED
      BY <2>1, <3>1 DEF audit
  <2>2. CASE n = Len(h) + 1
    <3> DEFINE e == Len(o.grants)
    <3>1. e \in 1..Len(o.grants)
      BY SMTT(30), <1>2
    <3>2. o.grants[e].epoch = e /\ IsInitial(o.grants[e].anchor, h)
      BY SMTT(30), <3>1 DEF audit
    <3>3. Len(o.grants[e].anchor) \in Nat
      BY SMTT(30), <1>2, <3>1 DEF WriterGrant, SessionHead
    <3>4. first_height(o.grants[e]) <= n
      BY <1>2, <2>2, <3>2, <3>3 DEF first_height, next_height, IsInitial
    <3>5. IsGrantFor(o, e, n)
      BY <1>2, <3>4 DEF IsGrantFor
    <3>6. check_stamp(t[n], o.grants[e])
      BY SMTT(30), <1>1, <2>2, <3>2 DEF check_stamp
    <3> QED
      BY SMTT(30), <3>1, <3>5, <3>6
  <2> QED
    BY SMTT(30), <1>1, <1>2, <2>1, <2>2
<1> QED
  BY <1>3, <1>4 DEF audit

(* The audit accepts a grant made at the exact head: it begins above every *)
(* stored block and takes none of them from its writer.                    *)
LEMMA AuditNextGrant ==
    ASSUME NEW o \in Ownership, NEW h \in SessionHead, audit(o, h),
           NEW g \in WriterGrant, g.epoch = Len(o.grants) + 1, g.anchor = h,
           NEW p \in Ownership, p.grants = Append(o.grants, g)
    PROVE  audit(p, h)
<1>1. /\ Len(o.grants) \in Nat /\ Len(h) \in Nat
      /\ \A e \in 1..Len(o.grants) : o.grants[e] \in WriterGrant
  BY DEF Ownership, SessionHead
<1>2. /\ Len(p.grants) = Len(o.grants) + 1
      /\ \A e \in 1..Len(o.grants) : p.grants[e] = o.grants[e]
      /\ p.grants[Len(o.grants) + 1] = g
  BY <1>1 DEF Ownership
<1>3. first_height(g) = Len(h) + 1
  BY DEF first_height, next_height
<1>4. ASSUME NEW e \in 1..Len(o.grants)
      PROVE  first_height(o.grants[e]) \in Nat /\ first_height(o.grants[e]) <= Len(h) + 1
  <2>1. Len(o.grants[e].anchor) \in Nat
    BY SMTT(30), <1>1 DEF WriterGrant, SessionHead
  <2>2. Len(o.grants[e].anchor) <= Len(h)
    BY SMTT(30) DEF audit, IsInitial
  <2> QED
    BY SMTT(30), <1>1, <2>1, <2>2 DEF first_height, next_height
<1>5. ASSUME NEW e \in 1..Len(p.grants)
      PROVE  /\ p.grants[e].epoch = e
             /\ IsInitial(p.grants[e].anchor, h)
             /\ e > 1 => first_height(p.grants[e - 1]) <= first_height(p.grants[e])
  <2>1. CASE e \in 1..Len(o.grants)
    <3>1. p.grants[e] = o.grants[e] /\ (e > 1 => p.grants[e - 1] = o.grants[e - 1])
      BY SMTT(30), <1>1, <1>2, <2>1
    <3> QED
      BY <2>1, <3>1 DEF audit
  <2>2. CASE e = Len(o.grants) + 1
    <3>1. p.grants[e] = g /\ (e > 1 => p.grants[e - 1] = o.grants[e - 1] /\ e - 1 \in 1..Len(o.grants))
      BY <1>1, <1>2, <2>2
    <3>2. IsInitial(h, h)
      BY InitialReflexive
    <3> QED
      BY SMTT(30), <1>3, <1>4, <2>2, <3>1, <3>2
  <2> QED
    BY SMTT(30), <1>1, <1>2, <2>1, <2>2
<1>6. ASSUME NEW n \in 1..Len(h)
      PROVE  \E e \in 1..Len(p.grants) : IsGrantFor(p, e, n) /\ check_stamp(h[n], p.grants[e])
  <2>1. PICK e \in 1..Len(o.grants) : IsGrantFor(o, e, n) /\ check_stamp(h[n], o.grants[e])
    BY DEF audit
  <2>2. e \in 1..Len(p.grants) /\ p.grants[e] = o.grants[e]
    BY <1>1, <1>2
  <2>3. ASSUME NEW f \in (e + 1)..Len(p.grants) PROVE first_height(p.grants[f]) > n
    <3>1. CASE f \in (e + 1)..Len(o.grants)
      BY <1>1, <1>2, <2>1, <3>1 DEF IsGrantFor
    <3>2. CASE f = Len(o.grants) + 1
      BY SMTT(30), <1>1, <1>2, <1>3, <3>2
    <3> QED
      BY <1>1, <1>2, <3>1, <3>2
  <2>4. IsGrantFor(p, e, n)
    BY SMTT(30), <2>1, <2>2, <2>3 DEF IsGrantFor
  <2> QED
    BY <2>1, <2>2, <2>4
<1> QED
  BY SMTT(30), <1>5, <1>6 DEF audit

(* The audit looks at the grants of a record only.                         *)
LEMMA AuditOfGrants ==
    ASSUME NEW o, NEW p, NEW h, audit(o, h), p.grants = o.grants
    PROVE  audit(p, h)
BY DEF audit, IsGrantFor

(* Resolving the pending head leaves a pair that passes open.              *)
LEMMA ReconciledReopens ==
    ASSUME NEW o \in Ownership, NEW h \in SessionHead, Reopens(o, h),
           o.pending_head # NoHead => OneStep(o)
    PROVE  Reopens(Reconciled(o, h), h)
<1>1. audit(o, h) /\ PendingAdmissible(o, h)
  BY SMTT(30), AbsentAssumption DEF Reopens
<1> DEFINE next == Reconciled(o, h)
<1>2. next.canonical_head = h /\ next.pending_head = NoHead /\ next.grants = o.grants
  BY <1>1, ReconciledFacts
<1>3. next \in Ownership
  BY ReconciledType
<1> HIDE DEF next
<1>4. audit(next, h)
  BY SMTT(30), <1>1, <1>2, AuditOfGrants
<1>5. PendingAdmissible(next, h)
  BY <1>2 DEF PendingAdmissible
<1> QED
  BY <1>2, <1>3, <1>4, <1>5, AbsentAssumption DEF Reopens, next

(* A new session's record passes open beside an empty history.             *)
LEMMA NewReopens == Reopens(NewOwnership, initial_head)
<1>1. NewOwnership # NoOwnership
  BY NewOwnershipType, AbsentAssumption
<1>2. audit(NewOwnership, initial_head)
  BY DEF audit, NewOwnership, initial_head
<1>3. PendingAdmissible(NewOwnership, initial_head)
  BY DEF PendingAdmissible, NewOwnership
<1> QED
  BY <1>1, <1>2, <1>3 DEF Reopens, NewOwnership

(* What one step does to the two databases, as the ledger sees it.         *)
LedgerStep ==
    /\ Reopens(epochs, chain)'
    /\ Ledger!Next \/ UNCHANGED <<Granted, chain, certs>>

(* A grant, whether its write reported success or not.                     *)
LEMMA GrantLedger ==
    ASSUME LedgerInv, NEW e \in 0..MaxEpochs, NEW w \in Workers, NEW h \in KnownHeads,
           Grant(e, w, h)
    PROVE  LedgerStep
<1> DEFINE grant == [epoch |-> e + 1, owner |-> w, anchor |-> h]
           next  == [own EXCEPT !.grants = Append(own.grants, grant)]
<1>1. /\ head \in SessionHead /\ own \in Ownership /\ h = head /\ chain = head
      /\ epochs = own /\ e = Len(own.grants)
      /\ own.pending_head = NoHead /\ own.canonical_head = head
  BY DEF LedgerInv, IInv, Grant, Serving, Synced, WatermarkProtocol, TypeInv, VolatileShape,
         CurrentEpoch
<1>2. grant \in WriterGrant
  BY <1>1, BoundsAssumption DEF WriterGrant
<1>3. /\ next \in Ownership /\ next.pending_head = NoHead /\ next.canonical_head = head
      /\ next.grants = Append(own.grants, grant)
  BY SMTT(30), <1>1, <1>2, GrantedType
<1>4. epochs' \in {epochs, next} /\ chain' = chain /\ certs' = certs
  BY DEF Grant, PersistFails
<1>5. audit(own, head)
  BY <1>1, AbsentAssumption DEF LedgerInv, Reopens
<1> HIDE DEF next
<1>6. Reopens(next, head)
  <2>1. grant.epoch = Len(own.grants) + 1 /\ grant.anchor = head
    BY SMTT(30), <1>1
  <2> HIDE DEF grant
  <2>2. audit(next, head)
    BY SMTT(30), <1>1, <1>2, <1>3, <1>5, <2>1, AuditNextGrant
  <2>3. PendingAdmissible(next, head)
    BY <1>3 DEF PendingAdmissible
  <2> QED
    BY <1>3, <2>2, <2>3, AbsentAssumption DEF Reopens
<1>7. Reopens(epochs, chain)'
  BY SMTT(30), <1>1, <1>4, <1>6 DEF LedgerInv
<1>8. CASE epochs' = epochs
  BY <1>4, <1>7, <1>8 DEF LedgerStep, Granted
<1>9. CASE epochs' = next
  <2>1. Granted = own.grants /\ Granted' = Append(own.grants, grant)
    BY <1>1, <1>3, <1>9, AbsentAssumption DEF Granted
  <2>2. grant = [epoch |-> Len(own.grants) + 1, owner |-> w, anchor |-> chain]
    BY <1>1
  <2>3. Ledger!Grant(w, chain)
    BY <1>4, <2>1, <2>2 DEF Ledger!Grant
  <2> QED
    BY <1>7, <2>3 DEF LedgerStep, Ledger!Next
<1> QED
  BY <1>4, <1>8, <1>9

(* A durable intent changes nothing the ledger shows.                      *)
LEMMA IntentLedger ==
    ASSUME LedgerInv, NEW e \in 1..MaxEpochs, NEW w \in Workers, NEW h \in KnownHeads,
           NEW b \in Batches, CommitIntent(e, w, h, b)
    PROVE  LedgerStep
<1> DEFINE block == [epoch |-> e, owner |-> w, batch |-> b]
           next  == [own EXCEPT !.pending_head = Append(head, block)]
<1>1. /\ head \in SessionHead /\ own \in Ownership /\ chain = head /\ epochs = own
      /\ own.canonical_head = head
  BY DEF LedgerInv, IInv, CommitIntent, Serving, Synced, WatermarkProtocol, TypeInv,
         VolatileShape
<1>2. /\ Len(own.grants) > 0 /\ e = Len(own.grants)
      /\ w = own.grants[Len(own.grants)].owner /\ b \cap Committed(head) = {}
  BY DEF CommitIntent, CurrentEpoch
<1>3. block \in Block
  BY BoundsAssumption DEF Block
<1>4. /\ Append(head, block) \in SessionHead
      /\ Len(Append(head, block)) = Len(head) + 1
  BY <1>1, <1>3, AppendBlockType
<1>5. /\ next \in Ownership /\ next.pending_head = Append(head, block)
      /\ next.canonical_head = head /\ next.grants = own.grants
  BY <1>1, <1>4, Zenon DEF Ownership
<1>6. epochs' \in {epochs, next} /\ chain' = chain /\ certs' = certs
  BY DEF CommitIntent, PersistFails
<1>7. audit(own, head)
  BY SMTT(30), <1>1, AbsentAssumption DEF LedgerInv, Reopens
<1> HIDE DEF next
<1>8. Reopens(next, head)
  <2>1. audit(next, head)
    BY <1>5, <1>7, AuditOfGrants
  <2>2. PendingAdmissible(next, head)
    BY SMTT(30), <1>4, <1>5 DEF PendingAdmissible, next_height
  <2>3. PendingStamped(next)
    BY SMTT(30), <1>2, <1>5 DEF PendingStamped
  <2> QED
    BY <1>5, <2>1, <2>2, <2>3, AbsentAssumption DEF Reopens
<1>9. Reopens(epochs, chain)'
  BY <1>1, <1>6, <1>8 DEF LedgerInv
<1>10. Granted' = Granted
  BY <1>1, <1>5, <1>6, AbsentAssumption DEF Granted
<1> QED
  BY <1>6, <1>9, <1>10 DEF LedgerStep

(* Resolving a pending head changes nothing the ledger shows.              *)
LEMMA ReconcileLedger ==
    ASSUME LedgerInv, own \in Ownership, head \in SessionHead, epochs = own, chain = head,
           epochs' \in {epochs, Reconciled(own, head)}, UNCHANGED <<chain, certs>>
    PROVE  LedgerStep
<1> DEFINE next == Reconciled(own, head)
<1>1. own.pending_head # NoHead => OneStep(own)
  BY AbsentAssumption DEF LedgerInv, IInv, DiskProtocol
<1>2. next \in Ownership /\ Reopens(next, head)
  BY SMTT(30), <1>1, ReconciledType, ReconciledReopens DEF LedgerInv
<1>3. next.grants = own.grants
  BY <1>1, ReconciledFacts, AbsentAssumption DEF LedgerInv, Reopens
<1> HIDE DEF next
<1>4. epochs' \in {own, next}
  BY DEF next
<1>5. Reopens(epochs, chain)'
  BY <1>2, <1>4 DEF LedgerInv
<1>6. Granted' = Granted
  BY <1>2, <1>3, <1>4, AbsentAssumption DEF Granted
<1> QED
  BY <1>5, <1>6 DEF LedgerStep

(* The write of the canonical store is the ledger's commit, whether it     *)
(* reported success or not.                                                *)
LEMMA CanonicalLedger ==
    ASSUME LedgerInv, CommitCanonical
    PROVE  LedgerStep
<1>1. /\ own \in Ownership /\ head \in SessionHead /\ epochs = own /\ chain = head
      /\ own.canonical_head = head /\ OneStep(own) /\ own.pending_head \in SessionHead
  BY DEF LedgerInv, IInv, CommitCanonical, Synced, WatermarkProtocol, TypeInv, VolatileShape
<1>2. /\ chain' \in {chain, own.pending_head} /\ UNCHANGED <<epochs, certs>>
  BY DEF CommitCanonical
<1>3. audit(own, head) /\ PendingStamped(own)
  BY SMTT(30), <1>1, AbsentAssumption DEF LedgerInv, Reopens
<1> DEFINE grants == own.grants
           w == grants[Len(grants)].owner
<1>4. PICK b \in Batches :
        /\ b \cap Committed(head) = {}
        /\ own.pending_head = Append(head, [epoch |-> Len(grants), owner |-> w, batch |-> b])
  BY <1>1, <1>3 DEF PendingStamped
<1> DEFINE block == [epoch |-> Len(grants), owner |-> w, batch |-> b]
<1>5. /\ Len(grants) \in Nat /\ Len(grants) > 0 /\ grants[Len(grants)] \in WriterGrant
  BY SMTT(30), <1>1, <1>3 DEF PendingStamped, Ownership
<1>6. block \in Block /\ block.epoch = Len(grants) /\ block.owner = w /\ w \in Workers
  <2>1. Len(grants) \in Nat \ {0}
    BY <1>5
  <2>2. w \in Workers
    BY ZenonT(30), <1>5 DEF WriterGrant
  <2> HIDE DEF grants, w
  <2> QED BY ZenonT(30), <2>1, <2>2 DEF Block
<1>7. Granted = grants /\ Granted' = Granted
  BY SMTT(30), <1>1, <1>2, AbsentAssumption DEF Granted
<1>8. CASE chain' = own.pending_head
  <2> HIDE DEF block
  <2>1. chain' = Append(head, block)
    BY ZenonT(30), <1>4, <1>8 DEF block
  <2>2. audit(own, Append(head, block))
    BY SMTT(30), <1>1, <1>3, <1>5, <1>6, AuditNextBlock
  <2>3. PendingAdmissible(own, own.pending_head)
    BY <1>1 DEF PendingAdmissible, OneStep, next_height
  <2>4. Reopens(epochs, chain)'
    <3>1. Reopens(own, own.pending_head)
      BY SMTT(30), <1>1, <1>3, <1>8, <2>1, <2>2, <2>3, AbsentAssumption DEF Reopens
    <3> QED
      BY SMTT(30), <1>1, <1>2, <1>8, <3>1
  <2>5. Ledger!Commit(Len(grants), w, chain, b)
    <3>1. Granted # <<>>
      BY <1>5, <1>7
    <3>2. b \cap Ledger!Committed(chain) = {}
      BY <1>1, <1>4 DEF Ledger!Committed, Committed
    <3> QED
      BY ZenonT(30), <1>1, <1>2, <1>7, <2>1, <3>1, <3>2 DEF Ledger!Commit, block
  <2> QED
    BY SMTT(30), <1>6, <1>7, <2>4, <2>5 DEF LedgerStep, Ledger!Next
<1>9. CASE chain' = chain
  BY ZenonT(30), <1>1, <1>2, <1>7, <1>9 DEF LedgerStep, LedgerInv
<1> QED
  BY ZenonT(30), <1>2, <1>8, <1>9

(* A receipt handed out is the ledger's certificate of that block.         *)
LEMMA CertifyLedger ==
    ASSUME LedgerInv, NEW n \in 1..Len(chain), certs' = certs \cup Receipts(own, n),
           UNCHANGED <<epochs, chain>>
    PROVE  LedgerStep
<1> DEFINE receipt == [epoch |-> chain[n].epoch, owner |-> chain[n].owner,
                       head |-> SubSeq(chain, 1, n)]
<1>1. Receipts(own, n) \subseteq {receipt}
  BY ZenonT(30) DEF Receipts, check_stamp
<1>2. Reopens(epochs, chain)' /\ Granted' = Granted
  BY DEF LedgerInv, Granted
<1>3. certs' = certs \/ certs' = certs \cup {receipt}
  <2> HIDE DEF receipt
  <2> QED BY ZenonT(30), <1>1
<1>4. certs' = certs \cup {receipt} => Ledger!Certify(n)
  BY <1>2 DEF Ledger!Certify
<1> QED
  BY ZenonT(30), <1>2, <1>3, <1>4 DEF LedgerStep, Ledger!Next

LEMMA EveryLedgerStep == LedgerInv /\ [Next]_vars => LedgerStep
<1> SUFFICES ASSUME LedgerInv, [Next]_vars PROVE LedgerStep
  OBVIOUS
<1> DEFINE Still == UNCHANGED <<epochs, chain, certs>>
<1>0. Still => LedgerStep
  BY DEF LedgerInv, LedgerStep, Granted
<1>t. /\ TypeInv /\ Synced /\ WatermarkProtocol
      /\ NoOwnership \notin Ownership /\ NoHead \notin SessionHead
  BY AbsentAssumption DEF LedgerInv, IInv
<1>1. CASE Crash
  BY <1>0, <1>1 DEF Crash, durable
<1>2. CASE OpenOwnership
  <2>1. UNCHANGED <<chain, certs>>
    BY <1>2 DEF OpenOwnership
  <2>2. CASE epochs' = epochs
    BY <1>0, <2>1, <2>2
  <2>3. CASE epochs = NoOwnership /\ chain = initial_head /\ epochs' = NewOwnership
    <3>1. Reopens(epochs, chain)'
      BY <2>1, <2>3, NewReopens
    <3>2. Granted' = Granted
      BY <1>t, <2>3, NewOwnershipType DEF Granted, NewOwnership
    <3> QED
      BY <2>1, <3>1, <3>2 DEF LedgerStep
  <2> QED
    BY <1>2, <2>2, <2>3 DEF OpenOwnership, PersistFails
<1>3. CASE OpenChain
  BY <1>0, <1>3 DEF OpenChain
<1>4. CASE OpenReconcile
  <2>1. own \in Ownership /\ head \in SessionHead /\ epochs = own /\ chain = head
    BY <1>4, <1>t DEF OpenReconcile, TypeInv, VolatileShape, Synced
  <2>2. epochs' \in {epochs, Reconciled(own, head)} /\ UNCHANGED <<chain, certs>>
    BY <1>4 DEF OpenReconcile, PersistFails
  <2> QED
    BY <2>1, <2>2, ReconcileLedger
<1>5. CASE OpenRefused
  BY <1>0, <1>5 DEF OpenRefused, durable
<1>6. CASE CommitSeal
  BY <1>0, <1>6 DEF CommitSeal, durable
<1>7. CASE CommitCanonical
  BY <1>7, CanonicalLedger
<1>8. CASE CommitWatermark
  <2>1. own \in Ownership /\ head \in SessionHead /\ epochs = own /\ chain = head
    BY <1>8, <1>t DEF CommitWatermark, TypeInv, VolatileShape, Synced
  <2>2. epochs' \in {epochs, Reconciled(own, head)} /\ UNCHANGED <<chain, certs>>
    BY <1>8 DEF CommitWatermark, PersistFails
  <2> QED
    BY <2>1, <2>2, ReconcileLedger
<1>9. CASE CommitReply
  <2>1. Len(head) \in 1..Len(chain)
    BY <1>9, <1>t DEF CommitReply, Synced, WatermarkProtocol, TypeInv, VolatileShape, SessionHead
  <2>2. certs' = certs \cup Receipts(own, Len(head)) /\ UNCHANGED <<epochs, chain>>
    BY <1>9 DEF CommitReply, durable
  <2> QED
    BY SMTT(30), <2>1, <2>2, CertifyLedger
<1>10. ASSUME NEW n \in 1..MaxHeight, CertifyStored(n) PROVE LedgerStep
  <2>1. /\ n \in 1..Len(chain) /\ certs' = certs \cup Receipts(own, n)
        /\ UNCHANGED <<epochs, chain>>
    BY <1>10 DEF CertifyStored, durable
  <2> QED
    BY <2>1, CertifyLedger
<1>11. CASE UNCHANGED vars
  BY <1>0, <1>11 DEF vars
<1> QED
  BY <1>1, <1>2, <1>3, <1>4, <1>5, <1>6, <1>7, <1>8, <1>9, <1>10, <1>11,
     GrantLedger, IntentLedger DEF Next, Step

LEMMA LedgerInvariant == Spec => []LedgerInv
<1>1. Init => LedgerInv
  BY IInvInit DEF Init, LedgerInv, Reopens
<1>2. LedgerInv /\ [Next]_vars => LedgerInv'
  BY IInvStep, EveryLedgerStep DEF LedgerInv, LedgerStep, NextWithRestore
<1> QED
  BY <1>1, <1>2, PTL DEF Spec

(* Whatever the authority was doing when it stopped, and whichever of its  *)
(* failed writes reached the disk, open accepts the two databases: the     *)
(* audit finds every grant anchored and every block stamped, and           *)
(* reconcile_pending finds the watermark or the one pending step.          *)
THEOREM AlwaysRecoverable == Spec => []Recoverable
<1>1. LedgerInv => Recoverable
  BY DEF LedgerInv, Reopens, Recoverable
<1> QED
  BY <1>1, LedgerInvariant, PTL

(* The authority with its two databases, failed writes and crashes         *)
(* implements the ledger its workers rely on: a grant or a block appears   *)
(* at one instant, a block only under the newest grant with fresh          *)
(* commands, a certificate only of a canonical block.                      *)
THEOREM ImplementsLedger == Spec => Ledger!Spec
<1>1. Init => Ledger!Init
  BY DEF Init, Ledger!Init, Granted, initial_head
<1>2. LedgerInv /\ [Next]_vars => [Ledger!Next]_(Ledger!vars)
  BY EveryLedgerStep DEF LedgerStep, Ledger!vars
<1> QED
  BY <1>1, <1>2, LedgerInvariant, PTL DEF Spec, Ledger!Spec
=============================================================================
