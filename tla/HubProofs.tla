------------------------------ MODULE HubProofs ------------------------------
(***************************************************************************)
(* Lemmas about the state of Coordinator; that its inductive invariant     *)
(* holds initially; and that it survives the steps that answer no job:     *)
(* registrations, heartbeats, look-ups, pairings, the demo switch,         *)
(* disconnects and pruning, the offers of a job to a worker (the commit    *)
(* route, its retry loop and demo mode) and crashes.                       *)
(***************************************************************************)
EXTENDS Coordinator, WellFoundedInduction, TLAPS

\* Leaves are proved by Zenon; those that need arithmetic or the theory of
\* sequences and records name SMT.
USE Zenon

(***************************************************************************)
(* Look-ups                                                                *)
(***************************************************************************)
\* A non-empty set of naturals has a least element, which Min chooses.
LEMMA MinInSet ==
    ASSUME NEW S \in SUBSET Nat, S # {}
    PROVE  Min(S) \in S /\ \A y \in S : Min(S) <= y
<1>1. PICK x \in S : \A y \in S : <<y, x>> \notin OpToRel(<, Nat)
  BY NatLessThanWellFounded, WFMin
<1>2. \A a, b \in Nat : a < b => <<a, b>> \in OpToRel(<, Nat)
  BY DEF OpToRel
<1>3. \A y \in S : ~(y < x)
  BY <1>1, <1>2
<1>4. \A y \in S : x <= y
  BY <1>3, SMT
<1> QED BY <1>4 DEF Min

\* The ids of the Map are positive numbers and never None.
LEMMA WorkerIdsFacts == WorkerIds \subseteq Nat /\ None \notin WorkerIds
  BY BoundAssumption, NoneAssumption, SMT DEF WorkerIds

\* First returns a member, or None for the empty set.
LEMMA FirstFacts ==
    ASSUME NEW S \in SUBSET WorkerIds
    PROVE  /\ S = {} => First(S) = None
           /\ S # {} => First(S) \in S
           /\ First(S) = None <=> S = {}
  BY MinInSet, WorkerIdsFacts DEF First

\* The entry that has job j, if there is one.
LEMMA FindByActiveJob ==
    ASSUME NEW j \in AnyJob
    PROVE  /\ findByActiveJob(j) # None => findByActiveJob(j) \in WorkerIds
                                           /\ Holds(findByActiveJob(j), j)
           /\ findByActiveJob(j) = None => \A w \in WorkerIds : ~Holds(w, j)
<1> DEFINE S == {w \in Online : workers[w].activeJobId = j}
<1>1. S \in SUBSET WorkerIds
  BY DEF Online
<1>2. findByActiveJob(j) = First(S)
  BY DEF findByActiveJob
<1> QED BY <1>1, <1>2, FirstFacts DEF Holds, Online

(***************************************************************************)
(* Entries of the Map and rows of the table                                *)
(***************************************************************************)
\* An entry of the Map has its fields and a socket whose owner is a pubkey.
LEMMA WorkerEntry ==
    ASSUME TypeOK, NEW w \in WorkerIds
    PROVE  /\ w \in Online => /\ workers[w] \in TrackedWorker
                              /\ workers[w].ws \in Sockets
                              /\ workers[w].status \in {"idle", "busy"}
                              /\ workers[w].activeJobId \in AnyJob \cup {None}
                              /\ Pubkey(w) \in Pubkeys
           /\ w \notin Online => workers[w] = NoWorker /\ workers[w].activeJobId = None
           /\ workers[w].activeJobId # None => w \in Online
  BY IdentityAssumption, SMT DEF TypeOK, Online, TrackedWorker, NoWorker, Pubkey

\* A stored row is a JobRow.
LEMMA JobEntry ==
    ASSUME TypeOK, NEW j \in Jobs
    PROVE  /\ jobs[j].status = "none" <=> jobs[j] = NoRow
           /\ jobs[j].status # "none" <=> jobs[j] \in JobRow
           /\ jobs[j].status \in JobStatus \cup {"none"}
           /\ jobs[j].worker_pubkey \in Pubkeys \cup {None}
           /\ jobs[j].status = "none" => jobs[j].worker_pubkey = None
  BY SMT DEF TypeOK, JobRow, NoRow, JobStatus

\* Whether an entry is in the Map shows in its status.
LEMMA OnlineByStatus ==
    ASSUME TypeOK, NEW w \in WorkerIds
    PROVE  /\ w \in Online <=> workers[w].status # "gone"
           /\ w \in Online <=> workers[w].status \in {"idle", "busy"}
<1>1. NoWorker.status = "gone"
  BY DEF NoWorker
<1> QED BY <1>1, WorkerEntry DEF Online

\* The same after a step.
LEMMA OnlineByStatusNext ==
    ASSUME TypeOK', NEW w \in WorkerIds
    PROVE  /\ w \in Online' <=> workers'[w].status # "gone"
           /\ w \in Online' <=> workers'[w].status \in {"idle", "busy"}
<1>1. NoWorker.status = "gone"
  BY DEF NoWorker
<1>2. workers'[w] \in TrackedWorker \cup {NoWorker}
  BY DEF TypeOK
<1>3. workers'[w] \in TrackedWorker => workers'[w].status \in {"idle", "busy"}
  BY DEF TrackedWorker
<1> QED BY <1>1, <1>2, <1>3 DEF Online

\* Payouts and feedback stay right while no job gets into or out of
\* "completed", and none out of "failed".
LEMMA PayKept ==
    ASSUME PaidOncePerCompletion, UNCHANGED <<payouts, feedback>>,
           \A k \in Jobs :
               \/ /\ jobs'[k].status = jobs[k].status
                  /\ jobs'[k].worker_pubkey = jobs[k].worker_pubkey
               \/ /\ jobs[k].status \in {"none", "pending", "assigned"}
                  /\ jobs'[k].status \in {"none", "pending", "assigned", "failed"}
    PROVE  PaidOncePerCompletion'
<1> SUFFICES ASSUME NEW j \in Jobs
             PROVE  /\ payouts'[j] = IF jobs'[j].status = "completed"
                                     THEN <<jobs'[j].worker_pubkey>> ELSE <<>>
                    /\ jobs'[j].status = "completed" => feedback'[j] = <<TRUE>>
                    /\ jobs'[j].status \in {"none", "pending", "assigned"} => feedback'[j] = <<>>
                    /\ jobs'[j].status = "failed" => NoPraise(j)'
  BY DEF PaidOncePerCompletion
<1>1. NoPraise(j)' <=> NoPraise(j)
  BY DEF NoPraise
<1>2. feedback[j] = <<>> => NoPraise(j)
  BY SMT DEF NoPraise
<1>3. CASE /\ jobs'[j].status = jobs[j].status
           /\ jobs'[j].worker_pubkey = jobs[j].worker_pubkey
  BY <1>1, <1>3 DEF PaidOncePerCompletion
<1>4. CASE /\ jobs[j].status \in {"none", "pending", "assigned"}
           /\ jobs'[j].status \in {"none", "pending", "assigned", "failed"}
  <2>1. feedback'[j] = <<>> /\ payouts'[j] = <<>> /\ jobs'[j].status # "completed"
    BY <1>4 DEF PaidOncePerCompletion
  <2> QED BY <1>1, <1>2, <2>1
<1> QED BY <1>3, <1>4

(***************************************************************************)
(* Steps that leave every holder of a job as it is                         *)
(***************************************************************************)
SameHolders ==
    /\ \A w \in WorkerIds :
          /\ workers'[w].activeJobId = workers[w].activeJobId
          /\ w \in Online => workers'[w].ws = workers[w].ws
          /\ w \in Online => workers'[w].status = workers[w].status
          /\ w \notin Online => workers'[w].status \in {"idle", "gone"}
    /\ UNCHANGED <<unanswered, jobs, pairings, retry, demoVars, callVars, offers, crashVars>>

\* Steps that keep every holder preserve the invariant.
LEMMA SameHoldersInv ==
    ASSUME IndInv, SameHolders, TypeOK', IdsInOrder' PROVE IndInv'
<1> USE DEF IndInv, callVars, crashVars, demoVars
<1>1. \A w \in WorkerIds, j \in AnyJob : Holds(w, j)' <=> Holds(w, j)
  BY WorkerEntry, OnlineByStatusNext, OnlineByStatus, NoneAssumption, SMT DEF SameHolders, Holds
<1>2. \A w \in WorkerIds, j \in AnyJob :
         Holds(w, j) => Pubkey(w)' = Pubkey(w) /\ workers'[w].ws = workers[w].ws
  BY DEF SameHolders, Holds, Pubkey
<1>3. NoDoubleBooking'
  <2>1. \A w \in Online' : workers'[w].status = "busy" <=> workers'[w].activeJobId # None
    BY WorkerEntry, OnlineByStatusNext, SMT DEF SameHolders, NoDoubleBooking, Online
  <2> QED BY <2>1, <1>1, <1>2, SMT DEF NoDoubleBooking, SameHolders, AnyJob
<1>4. OpenJobsAttended'
  BY <1>1 DEF OpenJobsAttended, SameHolders, AnyJob, Looping, Rejected
<1>5. DemoPaidOnce' /\ DemoFresh'
  BY <1>1 DEF DemoPaidOnce, DemoFresh, SameHolders, AnyJob
<1>6. AnswerFreesItsSender'
  BY <1>1, <1>2, SMT DEF AnswerFreesItsSender, SameHolders
<1>7. OfferedOnce' /\ OffersMatchRows' /\ PaidOncePerCompletion' /\ AnsweredIfOffered'
      /\ SingleDemoChain'
  BY PayKept DEF SameHolders, OfferedOnce, OffersMatchRows, AnsweredIfOffered, SingleDemoChain
<1>8. PrivateOnlyTrusted'
  BY DEF SameHolders, PrivateOnlyTrusted, trustList
<1> QED BY <1>3, <1>4, <1>5, <1>6, <1>7, <1>8

\* handleRegister adds an idle entry under a fresh id.
LEMMA RegisterInv == ASSUME IndInv, NEW s \in Sockets, Register(s) PROVE IndInv'
<1> USE DEF IndInv, Register
<1>1. lastId + 1 \in WorkerIds /\ workers[lastId + 1] = NoWorker
  BY BoundAssumption, SMT DEF TypeOK, WorkerIds, IdsInOrder
<1>2. TypeOK'
  <2>1. [ws |-> s, status |-> "idle", activeJobId |-> None, age |-> 0,
         reputationScore |-> None, stakeLevel |-> None] \in TrackedWorker
    BY BoundAssumption, SMT DEF TrackedWorker
  <2>2. lastId' \in 0..MaxRegistrations
    BY <1>1, BoundAssumption, SMT DEF TypeOK
  <2> QED BY <1>1, <2>1, <2>2 DEF TypeOK, dbVars, demoVars, callVars, crashVars
<1>3. IdsInOrder'
  BY <1>1, BoundAssumption, SMT DEF TypeOK, IdsInOrder, WorkerIds
<1>4. SameHolders
  BY <1>1, SMT DEF SameHolders, TypeOK, NoWorker, Online, dbVars, demoVars, callVars, crashVars
<1> QED BY <1>2, <1>3, <1>4, SameHoldersInv

\* A step that changes one entry in its age, reputation or stake level only.
LEMMA EntryUpdateInv ==
    ASSUME IndInv, NEW w \in Online, NEW entry \in TrackedWorker,
           entry.ws = workers[w].ws, entry.status = workers[w].status,
           entry.activeJobId = workers[w].activeJobId,
           workers' = [workers EXCEPT ![w] = entry],
           UNCHANGED <<socketVars, lastId, dbVars, retry, demoVars, callVars, offers, crashVars>>
    PROVE  IndInv'
<1> USE DEF IndInv
<1>1. w \in WorkerIds /\ workers[w] \in TrackedWorker
  BY WorkerEntry DEF Online
<1>2. TypeOK'
  BY <1>1 DEF TypeOK, socketVars, dbVars, demoVars, callVars, crashVars
<1>3. IdsInOrder'
  BY <1>1 DEF IdsInOrder, TypeOK, Online
<1>4. SameHolders
  BY <1>1, WorkerEntry, SMTT(30)
     DEF SameHolders, TypeOK, NoWorker, socketVars, dbVars, demoVars, callVars, crashVars
<1> QED BY <1>2, <1>3, <1>4, SameHoldersInv

\* Nothing changes.
LEMMA StutterInv == ASSUME IndInv, UNCHANGED vars PROVE IndInv'
<1> USE DEF IndInv
<1>1. UNCHANGED <<socketVars, hubVars, dbVars, retry, demoVars, callVars, offers, crashVars>>
  BY DEF vars
<1>2. TypeOK'
  BY <1>1 DEF TypeOK, socketVars, hubVars, dbVars, demoVars, callVars, crashVars
<1>3. IdsInOrder'
  BY <1>1 DEF IdsInOrder, hubVars, Online
<1>4. SameHolders
  BY <1>1, WorkerEntry, SMT DEF SameHolders, NoWorker, socketVars, hubVars, dbVars
<1> QED BY <1>2, <1>3, <1>4, SameHoldersInv

\* A late ERC-8004 answer changes the reputation of one entry.
LEMMA ReputationReadInv ==
    ASSUME IndInv, NEW w \in WorkerIds, NEW score \in Scores, ReputationRead(w, score)
    PROVE  IndInv'
<1> DEFINE entry == [workers[w] EXCEPT !.reputationScore = score]
<1>1. entry \in TrackedWorker /\ entry.ws = workers[w].ws /\ entry.status = workers[w].status
      /\ entry.activeJobId = workers[w].activeJobId
  BY WorkerEntry, SMT DEF ReputationRead, IndInv, TrackedWorker
<1> QED BY <1>1, EntryUpdateInv DEF ReputationRead

\* A late answer of the stake reader changes the stake level of one entry.
LEMMA StakeReadInv ==
    ASSUME IndInv, NEW w \in WorkerIds, NEW tier \in Tiers, StakeRead(w, tier)
    PROVE  IndInv'
<1> DEFINE entry == [workers[w] EXCEPT !.stakeLevel = tier]
<1>1. entry \in TrackedWorker /\ entry.ws = workers[w].ws /\ entry.status = workers[w].status
      /\ entry.activeJobId = workers[w].activeJobId
  BY WorkerEntry DEF StakeRead, IndInv, TrackedWorker
<1> QED BY <1>1, EntryUpdateInv DEF StakeRead

\* handleHeartbeat changes the age of at most one entry.
LEMMA HeartbeatInv == ASSUME IndInv, NEW s \in Sockets, Heartbeat(s) PROVE IndInv'
<1> DEFINE S == {w \in Online : Pubkey(w) = Owner[s]}
           w == findByPubkey(Owner[s])
           entry == [workers[w] EXCEPT !.age = 0]
<1>1. w = None \/ w \in S
  BY FirstFacts DEF findByPubkey, Online
<1>2. CASE w = None
  BY <1>2, StutterInv DEF Heartbeat, handleHeartbeat, vars, hubVars
<1>3. CASE w \in S
  <2>1. w \in WorkerIds /\ w # None
    BY <1>3, WorkerIdsFacts DEF Online
  <2>2. entry \in TrackedWorker /\ entry.ws = workers[w].ws /\ entry.status = workers[w].status
        /\ entry.activeJobId = workers[w].activeJobId
    BY <1>3, <2>1, WorkerEntry, BoundAssumption, SMT DEF IndInv, TrackedWorker
  <2>3. workers' = [workers EXCEPT ![w] = entry]
    BY <2>1 DEF Heartbeat, handleHeartbeat
  <2> QED BY <1>3, <2>2, <2>3, EntryUpdateInv DEF Heartbeat
<1> QED BY <1>1, <1>2, <1>3

(***************************************************************************)
(* Steps of the sockets, the trust routes and demo mode that touch no job  *)
(***************************************************************************)
\* A step that changes only the state of a socket, or makes its peer forget.
LEMMA SocketOnlyInv ==
    ASSUME IndInv, TypeOK',
           \A pk \in Pubkeys : unanswered'[pk] \subseteq unanswered[pk],
           UNCHANGED <<hubVars, dbVars, retry, demoVars, callVars, offers, crashVars>>
    PROVE  IndInv'
<1>1. PaidOncePerCompletion'
  BY PayKept DEF IndInv, dbVars, callVars
<1> QED BY <1>1, SMTT(30) DEF IndInv, IdsInOrder, NoDoubleBooking, OpenJobsAttended, OfferedOnce,
     OffersMatchRows, DemoPaidOnce, DemoFresh, PrivateOnlyTrusted,
     AnsweredIfOffered, AnswerFreesItsSender, SingleDemoChain, hubVars,
     dbVars, demoVars, callVars, crashVars, Holds, Looping, Rejected, Online, Pubkey,
     trustList

\* handleConnection registers listeners only.
LEMMA ConnectInv == ASSUME IndInv, NEW s \in Sockets, Connect(s) PROVE IndInv'
<1>1. TypeOK'
  BY DEF IndInv, TypeOK, Connect, hubVars, dbVars, demoVars, callVars, crashVars
<1> QED BY <1>1, SocketOnlyInv DEF Connect

\* A program that loses a connection keeps its jobs or forgets them.
LEMMA ProgramAfterLoss ==
    ASSUME TypeOK, NEW s \in Sockets, programAfterLoss(s)
    PROVE  /\ unanswered' \in [Pubkeys -> SUBSET AnyJob]
           /\ \A pk \in Pubkeys : unanswered'[pk] \subseteq unanswered[pk]
<1>1. Owner[s] \in Pubkeys
  BY IdentityAssumption
<1> QED BY <1>1 DEF TypeOK, programAfterLoss

\* A lost peer, or its close frame, changes nothing the hub keeps.
LEMMA PeerGoneInv ==
    ASSUME IndInv, NEW s \in Sockets, PeerLost(s) \/ PeerCloses(s) PROVE IndInv'
<1>1. TypeOK' /\ \A pk \in Pubkeys : unanswered'[pk] \subseteq unanswered[pk]
  BY ProgramAfterLoss
     DEF IndInv, TypeOK, PeerLost, PeerCloses, hubVars, dbVars, demoVars, callVars, crashVars
<1> QED BY <1>1, SocketOnlyInv DEF PeerLost, PeerCloses

\* The row of a receipt that was sent.
LEMMA RowTyped ==
    ASSUME NEW receipt \in SentReceipts \ {None}, NEW pk, NEW answer \in Jobs \cup {None}
    PROVE  ReceiptRow(receipt, pk, answer) \in Receipt
<1>1. receipt \in ReceiptMsg
  BY DataAssumption
<1> QED BY <1>1 DEF ReceiptRow, ReceiptMsg, Receipt

\* handleReceiptSubmit adds a receipt row only.
LEMMA ReceiptSubmitInv ==
    ASSUME IndInv, NEW s \in Sockets, NEW receipt \in SentReceipts \ {None},
           ReceiptSubmit(s, receipt)
    PROVE  IndInv'
<1>1. receipts' \subseteq Receipt
  <2>1. ReceiptRow(receipt, receipt.provider_pubkey, None) \in Receipt
    BY RowTyped
  <2> QED BY <2>1 DEF ReceiptSubmit, IndInv, TypeOK
<1>2. TypeOK'
  BY <1>1 DEF IndInv, TypeOK, ReceiptSubmit, socketVars, hubVars, demoVars, callVars, crashVars
<1>3. IdsInOrder' /\ SameHolders
  BY WorkerEntry, OnlineByStatus DEF IndInv, IdsInOrder, ReceiptSubmit, SameHolders, socketVars,
     hubVars
<1> QED BY <1>2, <1>3, SameHoldersInv DEF ReceiptSubmit

\* Claimed pairings are kept: nobody loses trust.
LEMMA PairingInv ==
    ASSUME IndInv, NEW c \in Codes, NEW p \in Pairing,
           pairings' = [pairings EXCEPT ![c] = p],
           pairings[c].claimed => /\ p.claimed
                                  /\ p.user = pairings[c].user
                                  /\ p.provider_pubkey = pairings[c].provider_pubkey,
           UNCHANGED <<socketVars, hubVars, jobs, receipts, retry, demoVars, callVars, offers,
                       crashVars>>
    PROVE  IndInv'
<1> USE DEF IndInv
<1>1. TypeOK'
  BY DEF TypeOK, socketVars, hubVars, demoVars, callVars, crashVars
<1>2. ASSUME NEW user \in Users PROVE trustList(user) \subseteq trustList(user)'
  BY SMT DEF TypeOK, trustList
<1>3. PrivateOnlyTrusted'
  <2>1. \A j \in Jobs : jobs[j].status # "none" => jobs[j].req.user \in Users
    BY JobEntry, DataAssumption DEF JobRow, Request
  <2> QED BY <1>2, <2>1 DEF PrivateOnlyTrusted
<1>4. PaidOncePerCompletion'
  BY PayKept DEF callVars
<1> QED BY <1>1, <1>3, <1>4, SMTT(30) DEF IdsInOrder, NoDoubleBooking, OpenJobsAttended,
     OfferedOnce, OffersMatchRows, DemoPaidOnce, DemoFresh, AnsweredIfOffered,
     AnswerFreesItsSender, SingleDemoChain, socketVars, hubVars, demoVars, callVars,
     crashVars, Holds, Looping, Rejected, Online, Pubkey

\* The trust routes only add pairings, claim them or let them expire.
LEMMA TrustInv ==
    ASSUME IndInv, NEW c \in Codes,
           \/ \E user \in Users : TrustCreate(c, user)
           \/ \E pk \in Pubkeys : TrustClaim(c, pk)
           \/ TrustExpire(c)
    PROVE  IndInv'
<1>1. pairings[c] \in Pairing \/ pairings[c] = NoPairing
  BY DEF IndInv, TypeOK
<1>2. ASSUME NEW user \in Users, TrustCreate(c, user) PROVE IndInv'
  <2>1. [user |-> user, provider_pubkey |-> None, claimed |-> FALSE, expired |-> FALSE]
          \in Pairing /\ ~pairings[c].claimed
    BY <1>2, SMT DEF TrustCreate, Pairing, NoPairing
  <2> QED BY <1>2, <2>1, PairingInv DEF TrustCreate
<1>3. ASSUME NEW pk \in Pubkeys, TrustClaim(c, pk) PROVE IndInv'
  <2> DEFINE p == [pairings[c] EXCEPT !.claimed = TRUE, !.provider_pubkey = pk]
  <2>1. p \in Pairing /\ ~pairings[c].claimed /\ pairings' = [pairings EXCEPT ![c] = p]
    BY <1>1, <1>3 DEF TrustClaim, Pairing, IndInv, TypeOK
  <2> QED BY <1>3, <2>1, PairingInv DEF TrustClaim
<1>4. ASSUME TrustExpire(c) PROVE IndInv'
  <2> DEFINE p == [pairings[c] EXCEPT !.expired = TRUE]
  <2>1. p \in Pairing /\ p.claimed = pairings[c].claimed /\ p.user = pairings[c].user
        /\ p.provider_pubkey = pairings[c].provider_pubkey /\ pairings' = [pairings EXCEPT ![c] = p]
    BY <1>1, <1>4, ZenonT(40) DEF TrustExpire, Pairing
  <2> QED BY <1>4, <2>1, PairingInv DEF TrustExpire
<1> QED BY <1>2, <1>3, <1>4

\* startDemoMode and stopDemoMode arm and clear the one timeout.
LEMMA DemoSwitchInv == ASSUME IndInv, startDemoMode \/ stopDemoMode PROVE IndInv'
<1> USE DEF IndInv
<1>1. \/ demoActive' = TRUE /\ demoTimers' = 1
      \/ demoActive' = FALSE /\ demoTimers' = 0
  <2>1. CASE startDemoMode
    <3>1. demoTimers = 0
      BY <2>1 DEF SingleDemoChain, startDemoMode
    <3> QED BY <2>1, <3>1, SMT DEF startDemoMode
  <2>2. CASE stopDemoMode
    <3>1. demoTimers = 1
      BY <2>2 DEF SingleDemoChain, stopDemoMode
    <3> QED BY <2>2, <3>1, SMT DEF stopDemoMode
  <2> QED BY <2>1, <2>2
<1>2. SingleDemoChain' /\ demoTimers' \in Nat /\ demoActive' \in BOOLEAN
  <2>1. SingleDemoChain'
    BY <1>1 DEF SingleDemoChain
  <2>2. demoTimers' \in Nat
    BY <1>1, SMT
  <2>3. demoActive' \in BOOLEAN
    BY <1>1
  <2> QED BY <2>1, <2>2, <2>3
<1>3. UNCHANGED <<socketVars, hubVars, dbVars, retry, demoUsed, callVars, offers, crashVars>>
  BY DEF startDemoMode, stopDemoMode
<1>4. TypeOK'
  BY <1>2, <1>3 DEF TypeOK, socketVars, hubVars, dbVars, callVars, crashVars
<1>5. IdsInOrder' /\ NoDoubleBooking' /\ AnswerFreesItsSender' /\ DemoPaidOnce' /\ DemoFresh'
  BY <1>3, SMT DEF IdsInOrder, NoDoubleBooking, AnswerFreesItsSender, DemoPaidOnce, DemoFresh,
     socketVars, hubVars, dbVars, callVars, Holds, Online, Pubkey
<1>6. OpenJobsAttended' /\ OffersMatchRows' /\ PrivateOnlyTrusted'
  <2> USE DEF hubVars, dbVars, callVars, crashVars
  <2>1. OpenJobsAttended'
    BY <1>3 DEF OpenJobsAttended, Holds, Online, Looping, Rejected
  <2>2. OffersMatchRows'
    BY <1>3 DEF OffersMatchRows, Holds, Online
  <2>3. PrivateOnlyTrusted'
    BY <1>3 DEF PrivateOnlyTrusted, Holds, Online, trustList
  <2> QED BY <2>1, <2>2, <2>3
<1>7. OfferedOnce' /\ AnsweredIfOffered' /\ PaidOncePerCompletion'
  BY <1>3, PayKept DEF OfferedOnce, AnsweredIfOffered, socketVars, dbVars, callVars
<1> QED BY <1>2, <1>4, <1>5, <1>6, <1>7

(***************************************************************************)
(* Entries that leave the Map                                              *)
(***************************************************************************)
\* The entries of gone leave the Map, as handleDisconnect and pruneStale remove them.
Disconnected(gone) ==
    /\ jobs' = failRows(ActiveJobs(gone), "worker_disconnected")
    /\ \A w \in WorkerIds :
          IF w \in gone \/ w \notin Online THEN workers'[w] = NoWorker
          ELSE /\ workers'[w].ws = workers[w].ws
               /\ workers'[w].status = workers[w].status
               /\ workers'[w].activeJobId = workers[w].activeJobId
    /\ \A pk \in Pubkeys : unanswered'[pk] \subseteq unanswered[pk]
    /\ UNCHANGED <<lastId, pairings, retry, demoVars, callVars, offers, crashVars>>

\* Entries that leave the Map take their assigned jobs to failed.
LEMMA DisconnectInv ==
    ASSUME IndInv, TypeOK', NEW gone \in SUBSET Online, Disconnected(gone)
    PROVE  IndInv'
<1> USE DEF IndInv
<1>1. \A w \in WorkerIds : w \in Online' <=> w \in Online /\ w \notin gone
  <2>1. \A w \in WorkerIds :
           IF w \in gone \/ w \notin Online THEN workers'[w].status = "gone"
           ELSE workers'[w].status = workers[w].status
    BY SMT DEF Disconnected, NoWorker
  <2> QED BY <2>1, OnlineByStatus, OnlineByStatusNext
<1>2. \A w \in WorkerIds : w \in Online' =>
         /\ workers'[w].ws = workers[w].ws
         /\ workers'[w].status = workers[w].status
         /\ workers'[w].activeJobId = workers[w].activeJobId
  BY <1>1 DEF Disconnected
<1>3. \A w \in WorkerIds, j \in AnyJob : Holds(w, j)' <=> Holds(w, j) /\ w \notin gone
  BY <1>1, <1>2 DEF Holds
<1>4. \A w \in WorkerIds, j \in AnyJob : Holds(w, j)' => Pubkey(w)' = Pubkey(w)
  BY <1>2 DEF Holds, Pubkey
<1>5. \A j \in Jobs : j \in ActiveJobs(gone) <=> \E w \in gone : Holds(w, j)
  BY DEF ActiveJobs, Holds
<1>6. \A j \in ActiveJobs(gone) : jobs[j].status = "assigned" /\ \A w \in WorkerIds : ~Holds(w, j)'
  BY <1>3, <1>5, SMT DEF NoDoubleBooking, ActiveJobs, Online, AnyJob
<1>7. \A j \in Jobs : /\ jobs'[j].worker_pubkey = jobs[j].worker_pubkey
                      /\ jobs'[j].req = jobs[j].req
                      /\ j \in ActiveJobs(gone) => jobs'[j].status = "failed"
                      /\ j \notin ActiveJobs(gone) => jobs'[j] = jobs[j]
  <2> SUFFICES ASSUME NEW j \in Jobs
               PROVE  /\ jobs'[j].worker_pubkey = jobs[j].worker_pubkey
                      /\ jobs'[j].req = jobs[j].req
                      /\ j \in ActiveJobs(gone) => jobs'[j].status = "failed"
                      /\ j \notin ActiveJobs(gone) => jobs'[j] = jobs[j]
    OBVIOUS
  <2>1. CASE j \in ActiveJobs(gone)
    <3>1. jobs[j] \in JobRow
      BY <1>6, <2>1, JobEntry
    <3>2. jobs'[j] = [jobs[j] EXCEPT !.status = "failed", !.result = "worker_disconnected"]
      BY <2>1 DEF Disconnected, failRows
    <3> QED BY <2>1, <3>1, <3>2 DEF JobRow
  <2>2. CASE j \notin ActiveJobs(gone)
    <3>1. jobs'[j] = jobs[j]
      BY <2>2 DEF Disconnected, failRows
    <3> QED BY <2>2, <3>1
  <2> QED BY <2>1, <2>2
<1>8. UNCHANGED <<lastId, pairings, retry, demoVars, callVars, offers, crashVars>>
      /\ \A pk \in Pubkeys : unanswered'[pk] \subseteq unanswered[pk]
  BY DEF Disconnected
<1> USE DEF demoVars, callVars, crashVars
<1>9. IdsInOrder'
  BY <1>1, <1>8 DEF IdsInOrder, Online
<1>10. NoDoubleBooking'
  <2>1. \A w \in Online' : workers'[w].status = "busy" <=> workers'[w].activeJobId # None
    BY <1>1, <1>2 DEF NoDoubleBooking, Online
  <2>2. \A w \in WorkerIds, j \in Jobs : Holds(w, j)' => jobs'[j].status = "assigned"
                                                    /\ jobs'[j].worker_pubkey = Pubkey(w)'
    BY <1>3, <1>4, <1>6, <1>7, SMT DEF NoDoubleBooking, AnyJob
  <2>3. \A u, v \in WorkerIds, j \in AnyJob : Holds(u, j)' /\ Holds(v, j)' => u = v
    BY <1>3 DEF NoDoubleBooking
  <2> QED BY <2>1, <2>2, <2>3 DEF NoDoubleBooking
<1>11. OpenJobsAttended'
  <2>1. ASSUME NEW j \in Jobs, jobs'[j].status = "assigned", j \notin orphaned
        PROVE  \E w \in WorkerIds : Holds(w, j)'
    BY <2>1, <1>3, <1>5, <1>7 DEF OpenJobsAttended, AnyJob
  <2> QED BY <2>1, <1>6, <1>7, <1>8 DEF OpenJobsAttended, Looping, Rejected
<1>12. OfferedOnce' /\ AnsweredIfOffered' /\ SingleDemoChain'
  BY <1>8 DEF OfferedOnce, AnsweredIfOffered, SingleDemoChain
<1>13. OffersMatchRows'
  BY <1>6, <1>7, <1>8, SMT DEF OffersMatchRows
<1>14. PaidOncePerCompletion'
  BY <1>6, <1>7, <1>8, PayKept
<1>15. DemoPaidOnce' /\ DemoFresh'
  BY <1>3, <1>8 DEF DemoPaidOnce, DemoFresh, AnyJob
<1>16. PrivateOnlyTrusted'
  BY <1>6, <1>7, <1>8, SMT DEF PrivateOnlyTrusted, trustList
<1>17. AnswerFreesItsSender'
  BY <1>3, <1>4, <1>8 DEF AnswerFreesItsSender
<1> QED BY <1>9, <1>10, <1>11, <1>12, <1>13, <1>14, <1>15, <1>16, <1>17

\* The rows that handleDisconnect and pruneStale write have their type.
LEMMA FailRowsType ==
    ASSUME IndInv, NEW gone \in SUBSET Online
    PROVE  failRows(ActiveJobs(gone), "worker_disconnected") \in [Jobs -> JobRow \cup {NoRow}]
<1>1. \A j \in ActiveJobs(gone) : j \in Jobs /\ jobs[j].status = "assigned"
  BY SMT DEF IndInv, NoDoubleBooking, ActiveJobs, Holds, Online
<1>2. \A j \in ActiveJobs(gone) :
         [jobs[j] EXCEPT !.status = "failed", !.result = "worker_disconnected"] \in JobRow
  BY <1>1, JobEntry, ZenonT(40) DEF IndInv, JobRow, JobStatus, JobErrors
<1> QED BY <1>2, ZenonT(40) DEF failRows, IndInv, TypeOK

\* The close event of a socket disconnects the entry of its closure.
LEMMA SocketCloseInv == ASSUME IndInv, NEW s \in Sockets, SocketClose(s) PROVE IndInv'
<1> DEFINE gone == {workerId[s]} \cap Online
<1>1. TypeOK'
  BY FailRowsType, ProgramAfterLoss, ZenonT(40) DEF IndInv, TypeOK, SocketClose, handleDisconnect,
     demoVars, callVars, crashVars
<1>2. \A pk \in Pubkeys : unanswered'[pk] \subseteq unanswered[pk]
  BY ProgramAfterLoss DEF IndInv, SocketClose
<1>3. \A w \in WorkerIds : workers'[w] = IF w \in gone THEN NoWorker ELSE workers[w]
  BY DEF SocketClose, handleDisconnect
<1>4. Disconnected(gone)
  BY <1>2, <1>3, WorkerEntry DEF Disconnected, SocketClose, handleDisconnect, IndInv
<1> QED BY <1>1, <1>4, DisconnectInv

\* The prune timer disconnects the stale entries and ages the others.
LEMMA PruneTimerInv == ASSUME IndInv, PruneTimer PROVE IndInv'
<1> USE DEF IndInv
<1>1. Stale \in SUBSET Online
  BY DEF Stale
<1>2. \A w \in WorkerIds : w \in Online /\ w \notin Stale =>
         /\ [workers[w] EXCEPT !.age = @ + 1] \in TrackedWorker
         /\ workers'[w] = [workers[w] EXCEPT !.age = @ + 1]
  BY WorkerEntry, BoundAssumption, SMT DEF Stale, TrackedWorker, PruneTimer, pruneStale
<1>3. workers' \in [WorkerIds -> TrackedWorker \cup {NoWorker}]
  BY <1>2 DEF PruneTimer, pruneStale
<1>4. TypeOK'
  BY <1>1, <1>3, FailRowsType DEF TypeOK, PruneTimer, pruneStale, demoVars, callVars, crashVars
<1>5. \A w \in WorkerIds :
         IF w \in Stale \/ w \notin Online THEN workers'[w] = NoWorker
         ELSE /\ workers'[w].ws = workers[w].ws
              /\ workers'[w].status = workers[w].status
              /\ workers'[w].activeJobId = workers[w].activeJobId
  BY <1>2, WorkerEntry DEF PruneTimer, pruneStale, TrackedWorker
<1>6. Disconnected(Stale)
  BY <1>5 DEF Disconnected, PruneTimer, pruneStale, socketVars
<1> QED BY <1>1, <1>4, <1>6, DisconnectInv

(***************************************************************************)
(* A worker gets a job                                                     *)
(***************************************************************************)
\* What assignJob does to the holders and to the worker programs.
LEMMA AssignJob ==
    ASSUME IndInv, NEW w \in Online, workers[w].status = "idle", NEW j \in AnyJob,
           assignJob(w, j)
    PROVE  /\ workers' \in [WorkerIds -> TrackedWorker \cup {NoWorker}]
           /\ unanswered' \in [Pubkeys -> SUBSET AnyJob]
           /\ \A v \in WorkerIds : v \in Online' <=> v \in Online
           /\ \A v \in WorkerIds : workers'[v].ws = workers[v].ws
           /\ \A v \in Online : workers'[v].status = "busy" <=> workers'[v].activeJobId # None
           /\ \A v \in WorkerIds, k \in AnyJob :
                 Holds(v, k)' <=> Holds(v, k) \/ (v = w /\ k = j)
           /\ \A pk \in Pubkeys, k \in AnyJob :
                 k \in unanswered'[pk] => k \in unanswered[pk] \/ (k = j /\ pk = Pubkey(w))
           /\ \A k \in AnyJob : offers'[k] = IF k = j THEN offers[j] + 1 ELSE offers[k]
           /\ offers' \in [AnyJob -> Nat]
<1> USE DEF IndInv
<1> DEFINE entry == [workers[w] EXCEPT !.status = "busy", !.activeJobId = j]
<1>1. w \in WorkerIds /\ workers[w] \in TrackedWorker /\ workers[w].ws \in Sockets
  BY WorkerEntry DEF Online
<1>2. workers[w].activeJobId = None
  BY DEF NoDoubleBooking
<1>3. entry \in TrackedWorker
  BY <1>1 DEF TrackedWorker
<1>4. entry.status = "busy" /\ entry.activeJobId = j /\ entry.ws = workers[w].ws
  BY <1>1 DEF TrackedWorker
<1>5. entry # NoWorker
  BY <1>4 DEF NoWorker
<1> HIDE DEF entry
<1>6. workers' = [workers EXCEPT ![w] = entry]
  BY DEF assignJob, entry
<1>7. /\ workers' \in [WorkerIds -> TrackedWorker \cup {NoWorker}]
      /\ workers'[w] = entry
      /\ \A v \in WorkerIds : v # w => workers'[v] = workers[v]
  BY <1>1, <1>3, <1>6 DEF TypeOK
<1>8. \A v \in WorkerIds : v \in Online' <=> v \in Online
  BY <1>5, <1>7 DEF Online
<1>9. \A v \in WorkerIds, k \in AnyJob : Holds(v, k)' <=> Holds(v, k) \/ (v = w /\ k = j)
  BY <1>2, <1>4, <1>7, <1>8, NoneAssumption DEF Holds
<1>10. \A v \in Online : workers'[v].status = "busy" <=> workers'[v].activeJobId # None
  <2>1. \A v \in Online : v \in WorkerIds
    BY DEF Online
  <2>2. \A v \in Online : workers[v].status = "busy" <=> workers[v].activeJobId # None
    BY DEF NoDoubleBooking
  <2> QED BY <1>4, <1>7, <2>1, <2>2, NoneAssumption
<1>11. /\ unanswered' \in [Pubkeys -> SUBSET AnyJob]
       /\ \A pk \in Pubkeys, k \in AnyJob :
            k \in unanswered'[pk] => k \in unanswered[pk] \/ (k = j /\ pk = Pubkey(w))
  BY <1>1, IdentityAssumption, SMT DEF deliver, TypeOK, assignJob, Pubkey
<1>12. /\ \A k \in AnyJob : offers'[k] = IF k = j THEN offers[j] + 1 ELSE offers[k]
       /\ offers' \in [AnyJob -> Nat]
  BY SMT DEF TypeOK, assignJob
<1>13. \A v \in WorkerIds : workers'[v].ws = workers[v].ws
  BY <1>4, <1>7
<1> QED BY <1>7, <1>8, <1>9, <1>10, <1>11, <1>12, <1>13

\* What assignJob keeps when it offers a job that was never offered before.
LEMMA FirstOffer ==
    ASSUME IndInv, NEW w \in Online, workers[w].status = "idle", NEW j \in AnyJob,
           assignJob(w, j), offers[j] = 0, \A v \in WorkerIds : ~Holds(v, j), UNCHANGED lastId
    PROVE  /\ IdsInOrder' /\ OfferedOnce' /\ AnsweredIfOffered' /\ AnswerFreesItsSender'
           /\ \A v \in Online' : workers'[v].status = "busy" <=> workers'[v].activeJobId # None
           /\ \A u, v \in WorkerIds, k \in AnyJob : Holds(u, k)' /\ Holds(v, k)' => u = v
           /\ \A v \in WorkerIds : Pubkey(v)' = Pubkey(v)
           /\ \A v \in WorkerIds, k \in AnyJob :
                 Holds(v, k)' <=> Holds(v, k) \/ (v = w /\ k = j)
           /\ offers'[j] = 1 /\ \A k \in AnyJob : k # j => offers'[k] = offers[k]
<1> USE DEF IndInv
<1>1. /\ \A v \in WorkerIds : v \in Online' <=> v \in Online
      /\ \A v \in Online : workers'[v].status = "busy" <=> workers'[v].activeJobId # None
  BY AssignJob
<1>2. \A v \in WorkerIds : Pubkey(v)' = Pubkey(v)
  BY AssignJob DEF Pubkey
<1>3. \A v \in WorkerIds, k \in AnyJob : Holds(v, k)' <=> Holds(v, k) \/ (v = w /\ k = j)
  BY AssignJob
<1>4. offers'[j] = 1 /\ \A k \in AnyJob : k # j => offers'[k] = offers[k]
  BY AssignJob, SMT
<1>5. /\ \A pk \in Pubkeys, k \in AnyJob :
            k \in unanswered'[pk] => k \in unanswered[pk] \/ (k = j /\ pk = Pubkey(w))
      /\ \A pk \in Pubkeys : unanswered'[pk] \subseteq AnyJob
  BY AssignJob
<1>6. \A pk \in Pubkeys : j \notin unanswered[pk]
  BY SMT DEF AnsweredIfOffered
<1>7. IdsInOrder'
  BY <1>1 DEF IdsInOrder, Online
<1>8. \A v \in Online' : workers'[v].status = "busy" <=> workers'[v].activeJobId # None
  BY <1>1 DEF Online
<1>9. \A u, v \in WorkerIds, k \in AnyJob : Holds(u, k)' /\ Holds(v, k)' => u = v
  BY <1>3, SMT DEF NoDoubleBooking
<1>10. OfferedOnce'
  BY <1>4, SMT DEF OfferedOnce
<1>11. AnsweredIfOffered'
  <2> SUFFICES ASSUME NEW pk \in Pubkeys, NEW k \in unanswered'[pk] PROVE offers'[k] = 1
    BY DEF AnsweredIfOffered
  <2>1. k \in AnyJob /\ (k \in unanswered[pk] \/ k = j)
    BY <1>5
  <2> QED BY <1>4, <1>6, <2>1 DEF AnsweredIfOffered
<1>12. AnswerFreesItsSender'
  <2> SUFFICES ASSUME NEW pk \in Pubkeys, NEW k \in AnyJob, NEW v \in WorkerIds,
                      k \in unanswered'[pk], Holds(v, k)'
               PROVE  Pubkey(v)' = pk
    BY DEF AnswerFreesItsSender
  <2>1. CASE k = j
    BY <1>2, <1>3, <1>5, <1>6, <2>1
  <2>2. CASE k # j
    <3>1. k \in unanswered[pk] /\ Holds(v, k)
      BY <1>3, <1>5, <2>2
    <3> QED BY <1>2, <3>1 DEF AnswerFreesItsSender
  <2> QED BY <2>1, <2>2
<1> QED BY <1>2, <1>3, <1>4, <1>7, <1>8, <1>9, <1>10, <1>11, <1>12

\* A committed job that was not offered before is assigned to an idle worker.
LEMMA CommittedAssignInv ==
    ASSUME IndInv, NEW j \in Jobs, NEW row \in JobRow, NEW w \in Candidates(row.req),
           jobs[j].status \in {"none", "pending"}, offers[j] = 0,
           row.status = "assigned", row.worker_pubkey = Pubkey(w),
           jobs' = [jobs EXCEPT ![j] = row], assignJob(w, j),
           retry' = [retry EXCEPT ![j] = None],
           UNCHANGED <<readyState, workerId, peer, lastId, receipts, pairings, demoVars,
                       callVars, crashVars>>
    PROVE  IndInv'
<1> USE DEF IndInv, callVars, crashVars, demoVars
<1>1. w \in Online /\ w \in WorkerIds /\ workers[w].status = "idle" /\ j \in AnyJob
  BY DEF Candidates, Online, AnyJob
<1>2. \A v \in WorkerIds : ~Holds(v, j)
  BY DEF NoDoubleBooking
<1>3. jobs'[j] = row /\ \A k \in Jobs : k # j => jobs'[k] = jobs[k]
  BY DEF TypeOK
<1>4. retry'[j] = None /\ \A k \in Jobs : k # j => retry'[k] = retry[k]
  BY DEF TypeOK
<1>5. TypeOK'
  BY <1>1, AssignJob DEF TypeOK
<1>6. /\ IdsInOrder' /\ OfferedOnce' /\ AnsweredIfOffered' /\ AnswerFreesItsSender'
      /\ \A v \in Online' : workers'[v].status = "busy" <=> workers'[v].activeJobId # None
      /\ \A u, v \in WorkerIds, k \in AnyJob : Holds(u, k)' /\ Holds(v, k)' => u = v
  BY <1>1, <1>2, FirstOffer
<1>7. /\ \A v \in WorkerIds : Pubkey(v)' = Pubkey(v)
      /\ \A v \in WorkerIds, k \in AnyJob :
            Holds(v, k)' <=> Holds(v, k) \/ (v = w /\ k = j)
      /\ offers'[j] = 1 /\ \A k \in AnyJob : k # j => offers'[k] = offers[k]
  BY <1>1, <1>2, FirstOffer
<1>8. NoDoubleBooking'
  <2>1. \A v \in WorkerIds, k \in Jobs :
           Holds(v, k)' => jobs'[k].status = "assigned" /\ jobs'[k].worker_pubkey = Pubkey(v)'
    <3> SUFFICES ASSUME NEW v \in WorkerIds, NEW k \in Jobs, Holds(v, k)'
                 PROVE  jobs'[k].status = "assigned" /\ jobs'[k].worker_pubkey = Pubkey(v)'
      OBVIOUS
    <3>1. Pubkey(v)' = Pubkey(v) /\ (Holds(v, k) \/ (v = w /\ k = j))
      BY <1>7 DEF AnyJob
    <3>2. CASE k = j
      BY <1>2, <1>3, <3>1, <3>2
    <3>3. CASE k # j
      <4>1. NoDoubleBooking /\ Holds(v, k) /\ jobs'[k] = jobs[k]
        BY <1>3, <3>1, <3>3
      <4> QED BY <3>1, <4>1, SMT DEF NoDoubleBooking
    <3> QED BY <3>2, <3>3
  <2> QED BY <1>6, <2>1 DEF NoDoubleBooking
<1>9. OpenJobsAttended'
  BY <1>1, <1>3, <1>4, <1>7, SMTT(30) DEF OpenJobsAttended, Looping, Rejected, AnyJob
<1>10. OffersMatchRows'
  BY <1>3, <1>7, SMT DEF OffersMatchRows, AnyJob
<1>11. PaidOncePerCompletion'
  BY <1>3, PayKept
<1>12. DemoPaidOnce' /\ DemoFresh'
  <2>1. \A d \in DemoJobs : d # j /\ d \in AnyJob
    BY DataAssumption DEF AnyJob
  <2> QED BY <1>7, <2>1 DEF DemoPaidOnce, DemoFresh
<1>13. PrivateOnlyTrusted'
  <2>1. \A user : trustList(user)' = trustList(user)
    BY DEF trustList
  <2>2. row.req.privacy = "PRIVATE" => Pubkey(w) \in trustList(row.req.user)
    BY DEF Candidates, trustedPubkeys, trustList
  <2> QED BY <1>3, <2>1, <2>2 DEF PrivateOnlyTrusted
<1>14. SingleDemoChain'
  BY DEF SingleDemoChain
<1> QED BY <1>5, <1>6, <1>8, <1>9, <1>10, <1>11, <1>12, <1>13, <1>14

\* A job that is not yet offered changes between new, pending and failed.
LEMMA UnmatchedInv ==
    ASSUME IndInv, NEW j \in Jobs, NEW row \in JobRow, NEW loop \in (0..MaxAttempts) \cup {None},
           jobs[j].status \in {"none", "pending"}, offers[j] = 0,
           row.status \in {"pending", "failed"}, row.status = "pending" <=> loop # None,
           row.worker_pubkey = None,
           jobs' = [jobs EXCEPT ![j] = row], retry' = [retry EXCEPT ![j] = loop],
           UNCHANGED <<socketVars, hubVars, receipts, pairings, demoVars, callVars, offers,
                       crashVars>>
    PROVE  IndInv'
<1> USE DEF IndInv, callVars, crashVars, demoVars, socketVars, hubVars
<1>1. \A v \in WorkerIds : ~Holds(v, j)
  BY DEF NoDoubleBooking
<1>2. jobs'[j] = row /\ \A k \in Jobs : k # j => jobs'[k] = jobs[k]
  BY DEF TypeOK
<1>3. retry'[j] = loop /\ \A k \in Jobs : k # j => retry'[k] = retry[k]
  BY DEF TypeOK
<1>4. TypeOK'
  BY DEF TypeOK
<1>5. \A v \in WorkerIds, k \in AnyJob : (Holds(v, k)' <=> Holds(v, k)) /\ Pubkey(v)' = Pubkey(v)
  BY DEF Holds, Online, Pubkey
<1>6. NoDoubleBooking'
  BY <1>1, <1>2, <1>5, SMT DEF NoDoubleBooking, AnyJob, Online
<1>7. OpenJobsAttended'
  BY <1>2, <1>3, <1>5, SMTT(30) DEF OpenJobsAttended, Looping, Rejected, AnyJob
<1>8. OffersMatchRows' /\ PaidOncePerCompletion'
  <2>1. OffersMatchRows'
    BY <1>2 DEF OffersMatchRows
  <2>2. PaidOncePerCompletion'
    BY <1>2, PayKept
  <2> QED BY <2>1, <2>2
<1>9. PrivateOnlyTrusted'
  BY <1>2, SMTT(30) DEF PrivateOnlyTrusted, trustList
<1>10. IdsInOrder' /\ OfferedOnce' /\ AnsweredIfOffered' /\ SingleDemoChain'
  BY DEF IdsInOrder, OfferedOnce, AnsweredIfOffered, SingleDemoChain
<1>11. DemoPaidOnce' /\ DemoFresh' /\ AnswerFreesItsSender'
  BY <1>5 DEF DemoPaidOnce, DemoFresh, AnswerFreesItsSender, AnyJob
<1> QED BY <1>4, <1>6, <1>7, <1>8, <1>9, <1>10, <1>11

\* The row the commit route inserts.
LEMMA PendingRow ==
    ASSUME NEW req \in Requests
    PROVE  /\ pendingRow(req) \in JobRow /\ pendingRow(req).status = "pending"
           /\ pendingRow(req).worker_pubkey = None /\ pendingRow(req).req = req
  BY DEF pendingRow, JobRow, JobStatus

\* The row a match writes.
LEMMA AssignedRow ==
    ASSUME TypeOK, NEW row \in JobRow, NEW w \in Online
    PROVE  /\ assignedRow(row, w) \in JobRow /\ assignedRow(row, w).status = "assigned"
           /\ assignedRow(row, w).worker_pubkey = Pubkey(w) /\ assignedRow(row, w).req = row.req
<1>1. Pubkey(w) \in Pubkeys
  BY WorkerEntry DEF Online
<1> QED BY <1>1 DEF assignedRow, JobRow, JobStatus

\* The row a failed match writes.
LEMMA FailedRow ==
    ASSUME NEW row \in JobRow, NEW error \in JobErrors
    PROVE  /\ failedRow(row, error) \in JobRow /\ failedRow(row, error).status = "failed"
           /\ failedRow(row, error).worker_pubkey = row.worker_pubkey
  BY ZenonT(40) DEF failedRow, JobRow, JobStatus

\* Committing a job: matched at once, failed at once, or left to a retry loop.
LEMMA HandleCommitInv ==
    ASSUME IndInv, NEW j \in Jobs, NEW req \in Requests, handleCommit(j, req) PROVE IndInv'
<1> USE DEF IndInv
<1>1. jobs[j].status = "none" /\ offers[j] = 0 /\ retry[j] = None
  BY SMT DEF handleCommit, NoRow, OffersMatchRows, OpenJobsAttended, Looping
<1>2. CASE CommitMatched(j, req)
  <2>1. PICK w \in Claimable(req) :
          /\ jobs' = [jobs EXCEPT ![j] = assignedRow(pendingRow(req), w)]
          /\ assignJob(w, j)
          /\ UNCHANGED retry
    BY <1>2, ZenonT(40) DEF CommitMatched
  <2>2. w \in Candidates(req) /\ w \in Online
    BY DEF Claimable, Candidates
  <2>3. retry' = [retry EXCEPT ![j] = None]
    BY <1>1, <2>1 DEF TypeOK
  <2> DEFINE row == assignedRow(pendingRow(req), w)
  <2>4. row \in JobRow /\ row.status = "assigned" /\ row.worker_pubkey = Pubkey(w)
        /\ row.req = req
    BY <2>2, PendingRow, AssignedRow
  <2> HIDE DEF row
  <2>5. jobs' = [jobs EXCEPT ![j] = row]
    BY <2>1 DEF row
  <2> QED BY <1>1, <2>1, <2>2, <2>3, <2>4, <2>5, CommittedAssignInv DEF handleCommit
<1>3. CASE CommitUnmatched(j, req)
  <2>1. UNCHANGED <<socketVars, hubVars, receipts, pairings, demoVars, callVars, offers,
                    crashVars>>
    BY <1>3 DEF CommitUnmatched, handleCommit, socketVars, hubVars
  <2>2. CASE req.privacy = "PRIVATE"
    <3> DEFINE row == failedRow(pendingRow(req), "no_trusted_worker")
    <3>1. row \in JobRow /\ row.status = "failed" /\ row.worker_pubkey = None
      BY PendingRow, FailedRow, SMT DEF JobErrors
    <3> HIDE DEF row
    <3>2. jobs' = [jobs EXCEPT ![j] = row] /\ retry' = [retry EXCEPT ![j] = None]
      BY <1>1, <1>3, <2>2 DEF CommitUnmatched, TypeOK, row
    <3> QED BY <1>1, <2>1, <3>1, <3>2, UnmatchedInv, ZenonT(40)
  <2>3. CASE req.privacy # "PRIVATE"
    <3>1. jobs' = [jobs EXCEPT ![j] = pendingRow(req)] /\ retry' = [retry EXCEPT ![j] = 0]
      BY <1>3, <2>3 DEF CommitUnmatched
    <3>2. 0 \in 0..MaxAttempts /\ 0 # None
      BY BoundAssumption, NoneAssumption, SMT
    <3> QED BY <1>1, <2>1, <3>1, <3>2, PendingRow, UnmatchedInv, ZenonT(40)
  <2> QED BY <2>2, <2>3
<1> QED BY <1>2, <1>3 DEF handleCommit

\* One firing of a retry loop.
LEMMA RetryTimerInv == ASSUME IndInv, NEW j \in Jobs, RetryTimer(j) PROVE IndInv'
<1> USE DEF IndInv
<1>1. jobs[j].status = "pending" /\ jobs[j] \in JobRow /\ offers[j] = 0
      /\ retry[j] \in 0..MaxAttempts
  BY JobEntry, SMTT(30) DEF RetryTimer, OpenJobsAttended, Looping, Rejected, TypeOK, AnyJob
<1>2. jobs[j].worker_pubkey = None
  BY <1>1 DEF OffersMatchRows
<1>3. CASE RetryMatched(j)
  <2>1. PICK w \in Claimable(jobs[j].req) :
          /\ jobs' = [jobs EXCEPT ![j] = assignedRow(@, w)]
          /\ assignJob(w, j)
          /\ stopLoop(j)
    BY <1>3 DEF RetryMatched
  <2>2. w \in Candidates(jobs[j].req) /\ w \in Online
    BY DEF Claimable, Candidates
  <2> DEFINE row == assignedRow(jobs[j], w)
  <2>3. row \in JobRow /\ row.status = "assigned" /\ row.worker_pubkey = Pubkey(w)
        /\ row.req = jobs[j].req
    BY <1>1, <2>2, AssignedRow
  <2> HIDE DEF row
  <2>4. jobs' = [jobs EXCEPT ![j] = row] /\ retry' = [retry EXCEPT ![j] = None]
    BY <2>1 DEF row, stopLoop
  <2> QED BY <1>1, <2>1, <2>2, <2>3, <2>4, CommittedAssignInv, ZenonT(40) DEF RetryTimer
<1>4. CASE RetryUnmatched(j)
  <2>1. UNCHANGED <<socketVars, hubVars, receipts, pairings, demoVars, callVars, offers,
                    crashVars>>
    BY <1>4 DEF RetryUnmatched, RetryTimer, socketVars, hubVars
  <2>2. CASE retry[j] + 1 >= MaxAttempts
    <3> DEFINE row == failedRow(jobs[j], "no_eligible_worker")
    <3>1. row \in JobRow /\ row.status = "failed" /\ row.worker_pubkey = None
      BY <1>1, <1>2, FailedRow DEF JobErrors
    <3> HIDE DEF row
    <3>2. jobs' = [jobs EXCEPT ![j] = row] /\ retry' = [retry EXCEPT ![j] = None]
      BY <1>4, <2>2 DEF RetryUnmatched, stopLoop, row
    <3> QED BY <1>1, <2>1, <3>1, <3>2, UnmatchedInv
  <2>3. CASE ~(retry[j] + 1 >= MaxAttempts)
    <3>1. retry[j] + 1 \in 0..MaxAttempts /\ retry[j] + 1 # None
      BY <1>1, <2>3, BoundAssumption, NoneAssumption, SMT
    <3>2. jobs' = [jobs EXCEPT ![j] = jobs[j]] /\ retry' = [retry EXCEPT ![j] = retry[j] + 1]
      BY <1>4, <2>3 DEF RetryUnmatched, TypeOK
    <3> QED BY <1>1, <1>2, <2>1, <3>1, <3>2, UnmatchedInv
  <2> QED BY <2>2, <2>3
<1> QED BY <1>1, <1>3, <1>4 DEF RetryTimer

\* The demo timeout gives a fresh demo job to an idle worker.
LEMMA DemoTickInv == ASSUME IndInv, demoTick PROVE IndInv'
<1> USE DEF IndInv
<1>1. PICK w \in getIdleWorkers, d \in DemoJobs \ demoUsed : injectDemoJob(w, d)
  BY DEF demoTick
<1>2. w \in Online /\ w \in WorkerIds /\ workers[w].status = "idle" /\ assignJob(w, d)
      /\ d \in AnyJob /\ demoUsed' = demoUsed \cup {d}
  BY <1>1 DEF getIdleWorkers, injectDemoJob, Online, AnyJob
<1>3. offers[d] = 0 /\ payouts[d] = <<>> /\ \A v \in WorkerIds : ~Holds(v, d)
  BY DEF DemoFresh
<1>4. UNCHANGED <<readyState, workerId, peer, lastId, jobs, receipts, pairings, retry, demoActive,
                  demoTimers, payouts, feedback, orphaned, crashes>>
  BY DEF demoTick, dbVars, callVars, crashVars
<1>5. TypeOK'
  BY <1>2, <1>4, AssignJob DEF TypeOK
<1>6. /\ IdsInOrder' /\ OfferedOnce' /\ AnsweredIfOffered' /\ AnswerFreesItsSender'
      /\ \A v \in Online' : workers'[v].status = "busy" <=> workers'[v].activeJobId # None
      /\ \A u, v \in WorkerIds, k \in AnyJob : Holds(u, k)' /\ Holds(v, k)' => u = v
  BY <1>2, <1>3, <1>4, FirstOffer, ZenonT(40)
<1>7. /\ \A v \in WorkerIds : Pubkey(v)' = Pubkey(v)
      /\ \A v \in WorkerIds, k \in AnyJob :
            Holds(v, k)' <=> Holds(v, k) \/ (v = w /\ k = d)
      /\ offers'[d] = 1 /\ \A k \in AnyJob : k # d => offers'[k] = offers[k]
  BY <1>2, <1>3, <1>4, FirstOffer, ZenonT(40)
<1>8. \A j \in Jobs : /\ j # d /\ j \in AnyJob
                      /\ offers'[j] = offers[j]
                      /\ \A v \in WorkerIds : Holds(v, j)' <=> Holds(v, j)
  <2>1. \A j \in Jobs : j # d /\ j \in AnyJob
    BY DataAssumption DEF AnyJob
  <2> QED BY <1>7, <2>1
<1>9. NoDoubleBooking'
  <2>1. jobs' = jobs
    BY <1>4
  <2>2. \A v \in WorkerIds, k \in Jobs :
           Holds(v, k) => jobs[k].status = "assigned" /\ jobs[k].worker_pubkey = Pubkey(v)
    BY DEF NoDoubleBooking
  <2>3. \A v \in WorkerIds, k \in Jobs :
           Holds(v, k)' => jobs'[k].status = "assigned" /\ jobs'[k].worker_pubkey = Pubkey(v)'
    BY <1>7, <1>8, <2>1, <2>2
  <2> QED BY <1>6, <2>3, ZenonT(40) DEF NoDoubleBooking
<1>10. OpenJobsAttended'
  <2>1. jobs' = jobs /\ retry' = retry /\ orphaned' = orphaned
    BY <1>4
  <2> QED BY <1>8, <2>1, ZenonT(40) DEF OpenJobsAttended, Looping, Rejected
<1>11. OffersMatchRows'
  BY <1>4, <1>8 DEF OffersMatchRows
<1>12. PaidOncePerCompletion' /\ PrivateOnlyTrusted'
  BY <1>4, PayKept DEF PrivateOnlyTrusted, trustList
<1>13. DemoPaidOnce' /\ DemoFresh'
  BY <1>2, <1>3, <1>4, <1>7 DEF DemoPaidOnce, DemoFresh, AnyJob
<1>14. SingleDemoChain'
  BY <1>4 DEF SingleDemoChain
<1> QED BY <1>5, <1>6, <1>9, <1>10, <1>11, <1>12, <1>13, <1>14

(***************************************************************************)
(* A crash, and the initial state                                          *)
(***************************************************************************)
\* A crash empties the Map and the loops, and orphans the open jobs.
LEMMA CrashInv == ASSUME IndInv, Crash PROVE IndInv'
<1> USE DEF IndInv, dbVars, callVars
<1>1. \A w \in WorkerIds : workers'[w] = NoWorker /\ w \notin Online'
  BY DEF Crash, Online
<1>2. \A w \in WorkerIds, j \in AnyJob : ~Holds(w, j)'
  BY <1>1 DEF Holds
<1>3. /\ jobs' = jobs /\ offers' = offers /\ payouts' = payouts /\ feedback' = feedback
      /\ pairings' = pairings /\ demoUsed' = demoUsed /\ lastId' = lastId
      /\ orphaned' = orphaned \cup OpenJobs
      /\ \A j \in Jobs : retry'[j] = None
      /\ \A pk \in Pubkeys : unanswered'[pk] \subseteq unanswered[pk]
      /\ unanswered' \in [Pubkeys -> SUBSET AnyJob]
  BY DEF Crash, TypeOK
<1>4. TypeOK'
  <2>1. demoActive' \in BOOLEAN /\ peer' \in [Sockets -> BOOLEAN]
    BY DEF Crash
  <2>2. /\ readyState' \in [Sockets -> {"unused", "open", "closing", "closed"}]
        /\ workerId' \in [Sockets -> WorkerIds \cup {None}]
        /\ workers' \in [WorkerIds -> TrackedWorker \cup {NoWorker}]
        /\ retry' \in [Jobs -> (0..MaxAttempts) \cup {None}]
    BY DEF Crash, TypeOK
  <2>3. orphaned' \subseteq Jobs /\ crashes' \in 0..MaxCrashes /\ demoTimers' \in Nat
    BY BoundAssumption, SMT DEF Crash, TypeOK, OpenJobs
  <2>4. receipts' = receipts
    BY DEF Crash
  <2> QED BY <1>3, <2>1, <2>2, <2>3, <2>4 DEF TypeOK
<1>5. IdsInOrder'
  BY <1>1 DEF IdsInOrder
<1>6. NoDoubleBooking'
  BY <1>1, <1>2 DEF NoDoubleBooking, Online, AnyJob
<1>7. OpenJobsAttended'
  BY <1>3 DEF OpenJobsAttended, OpenJobs, Looping
<1>8. OfferedOnce' /\ PaidOncePerCompletion'
  BY <1>3, PayKept DEF OfferedOnce
<1>9. OffersMatchRows'
  BY <1>3 DEF OffersMatchRows, OpenJobs
<1>10. DemoPaidOnce' /\ DemoFresh'
  BY <1>2, <1>3 DEF DemoPaidOnce, DemoFresh, AnyJob
<1>11. PrivateOnlyTrusted'
  BY <1>3 DEF PrivateOnlyTrusted, trustList
<1>12. AnsweredIfOffered' /\ AnswerFreesItsSender'
  BY <1>2, <1>3 DEF AnsweredIfOffered, AnswerFreesItsSender
<1>13. SingleDemoChain'
  BY DEF Crash, SingleDemoChain
<1> QED BY <1>4, <1>5, <1>6, <1>7, <1>8, <1>9, <1>10, <1>11, <1>12, <1>13

\* An empty database and an empty hub satisfy the invariant.
LEMMA InitInv == Init => IndInv
<1> SUFFICES ASSUME Init PROVE IndInv
  OBVIOUS
<1>1. \A w \in WorkerIds : workers[w] = NoWorker /\ w \notin Online
  BY DEF Init, Online
<1>2. \A w \in WorkerIds, j \in AnyJob : ~Holds(w, j)
  BY <1>1 DEF Holds
<1>3. \A j \in Jobs : jobs[j] = NoRow /\ jobs[j].status = "none" /\ retry[j] = None
                      /\ jobs[j].worker_pubkey = None /\ j \in AnyJob
  BY DEF Init, NoRow, AnyJob
<1>4. \A j \in AnyJob : offers[j] = 0 /\ payouts[j] = <<>> /\ feedback[j] = <<>>
  BY DEF Init
<1>5. TypeOK
  <2>1. demoActive \in BOOLEAN /\ peer \in [Sockets -> BOOLEAN]
    BY DEF Init
  <2>2. /\ readyState \in [Sockets -> {"unused", "open", "closing", "closed"}]
        /\ workerId \in [Sockets -> WorkerIds \cup {None}]
        /\ unanswered \in [Pubkeys -> SUBSET AnyJob]
        /\ workers \in [WorkerIds -> TrackedWorker \cup {NoWorker}]
        /\ retry \in [Jobs -> (0..MaxAttempts) \cup {None}]
        /\ jobs \in [Jobs -> JobRow \cup {NoRow}]
    BY DEF Init
  <2>3. /\ lastId \in 0..MaxRegistrations /\ crashes \in 0..MaxCrashes
        /\ demoTimers \in Nat /\ offers \in [AnyJob -> Nat]
    BY BoundAssumption, SMT DEF Init
  <2>4. /\ receipts \subseteq Receipt /\ demoUsed \subseteq DemoJobs /\ orphaned \subseteq Jobs
        /\ pairings \in [Codes -> Pairing \cup {NoPairing}]
    BY DEF Init
  <2>5. payouts \in [AnyJob -> Seq(Pubkeys)] /\ feedback \in [AnyJob -> Seq(BOOLEAN)]
    BY SMT DEF Init
  <2> QED BY <2>1, <2>2, <2>3, <2>4, <2>5 DEF TypeOK
<1>6. IdsInOrder /\ NoDoubleBooking
  BY <1>1, <1>2 DEF IdsInOrder, NoDoubleBooking, Online, AnyJob
<1>7. OpenJobsAttended /\ OffersMatchRows
  BY <1>3, <1>4 DEF OpenJobsAttended, OffersMatchRows, Looping, Init
<1>8. OfferedOnce /\ PaidOncePerCompletion
  <2>1. \A j \in Jobs : jobs[j].status # "completed" /\ jobs[j].status # "failed"
    BY <1>3
  <2>2. OfferedOnce
    BY <1>4, SMT DEF OfferedOnce
  <2> QED BY <1>3, <1>4, <2>1, <2>2 DEF PaidOncePerCompletion
<1>9. DemoPaidOnce /\ DemoFresh
  <2>1. \A d \in DemoJobs : d \in AnyJob
    BY DEF AnyJob
  <2> QED BY <1>2, <1>4, <2>1, SMT DEF DemoPaidOnce, DemoFresh
<1>10. PrivateOnlyTrusted
  BY <1>3 DEF PrivateOnlyTrusted
<1>11. AnsweredIfOffered /\ AnswerFreesItsSender /\ SingleDemoChain
  BY DEF Init, AnsweredIfOffered, AnswerFreesItsSender, SingleDemoChain
<1> QED BY <1>5, <1>6, <1>7, <1>8, <1>9, <1>10, <1>11 DEF IndInv
=============================================================================
