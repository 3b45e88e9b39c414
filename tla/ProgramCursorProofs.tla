-------------------------- MODULE ProgramCursorProofs --------------------------
(* Proofs about ProgramCursor for every set of threads, cursors, receipts and   *)
(* accounts.  A step changes one call and at most one cursor, so the invariant  *)
(* is stated per call and per idle cursor, as predicates of their records, and  *)
(* the frame lemma LocalStep carries it over all the others.  The invariant     *)
(* Books adds the sums: what the calls have staged and been granted, which      *)
(* receipts they fill, and what every allowance counts.                         *)
EXTENDS ProgramCursor, SumTheorems, TLAPS

CallType ==
  [pc : Pcs, cur : Cursors \cup {NoCursor}, own : BOOLEAN, to : Accounts,
   fill : Receipts \cup {NoReceipt}, staged : Nat, granted : Nat, end : Statuses]

CursorType ==
  [status : Statuses, working : Accounts, ledger : Int,
   active : Threads \cup {NoThread}, tokens : SUBSET {"original", "advance"}]

(* The lease: nothing is refunded while a use is live or the gate is open.      *)
LeaseInv ==
  /\ paid \in {0, ProgramBytes} /\ live \subseteq Cursors
  /\ handed = TRUE /\ closed \in BOOLEAN
  /\ paid = 0 => closed /\ live = {}

Tokens(k) == {"original"} \cup (IF k.own THEN {"advance"} ELSE {})

Settled(c, q, L) == q.ledger = 0 /\ c \notin L

(* What holds of a cursor c, with record q and live uses L, that no call is in. *)
IdleInv(c, q, L) ==
  /\ q.active = NoThread /\ q.tokens = {"original"}
  /\ IF q.status = "open" THEN c \in L ELSE Settled(c, q, L)

(* What holds while call k of thread t is inside its cursor, with record q, by  *)
(* the step it is about to take.                                                *)
CallInv(t, k, q, L) ==
  /\ IF q.status = "unborn" THEN q.active = NoThread ELSE q.active = t
  /\ q.status = "open" => k.cur \in L
  /\ k.pc \in {"enter", "build"} => q.status = "unborn" /\ k.end = "unborn"
  /\ k.pc = "enter" => Settled(k.cur, q, L)
  /\ k.pc = "build" => k.cur \in L
  /\ k.pc = "check" => /\ k.end = "open" /\ q.status # "unborn"
                       /\ q.status # "open" => Settled(k.cur, q, L)
  /\ k.pc \in {"search", "staged", "granted", "fill"} => q.status = "open" /\ k.end = "open"
  /\ k.pc = "unstage" => q.status = "open" /\ k.end \in {"open", "ended", "faulted"}
  /\ k.pc = "restore" => IF k.end = "ended" THEN q.status = "ended" /\ Settled(k.cur, q, L)
                         ELSE q.status = "open" /\ k.end \in {"open", "faulted"}
  /\ k.pc = "close" => /\ k.end # "open" /\ (k.end = "unborn" <=> q.status = "unborn")
                       /\ q.status \in Terminal => k.end = "disposed" /\ Settled(k.cur, q, L)
  /\ k.pc = "endUse" => k.end # "open" /\ q.status = k.end /\ q.ledger = 0
  /\ k.pc = "exit" => (q.status # "open" => Settled(k.cur, q, L))
  /\ q.tokens = IF \/ k.pc \in {"search", "staged", "granted", "fill", "unstage", "restore"}
                   \/ k.pc \in {"close", "endUse"} /\ k.end = "ended"
                THEN Tokens(k) ELSE {"original"}

Outside(k) == k.cur = NoCursor /\ k.pc \in {"idle", "repay"}

Inside(t) ==
  /\ call[t].cur # NoCursor /\ call[t].pc \notin {"idle", "repay"}
  /\ CallInv(t, call[t], cursor[call[t].cur], live)

Idle(c) == IdleInv(c, cursor[c], live)

IInv ==
  /\ call \in [Threads -> CallType] /\ cursor \in [Cursors -> CursorType]
  /\ LeaseInv
  /\ \A t, u \in Threads : call[t].cur = call[u].cur => t = u \/ call[t].cur = NoCursor
  /\ \A t \in Threads : Outside(call[t]) \/ Inside(t)
  /\ \A c \in Cursors : (\A t \in Threads : call[t].cur # c) => Idle(c)

(* TerminalStays, for one cursor and for a step.                                *)
Calm(q, r) ==
  q.status \in Terminal => r.status \in {q.status, "disposed"} /\ r.ledger <= q.ledger

CalmStep == \A c \in Cursors : Calm(cursor[c], cursor'[c])

--------------------------------------------------------------------------------
(* A step of call t that touches cursor c alone preserves the invariant when it *)
(* leaves the call and the cursor as the predicates demand.                     *)
LEMMA LocalStep ==
  ASSUME IInv, NEW t \in Threads, NEW c \in Cursors, NEW r \in CallType, NEW q \in CursorType,
         call[t].cur = c \/ (call[t].cur = NoCursor /\ \A u \in Threads : call[u].cur # c),
         call' = [call EXCEPT ![t] = r], cursor' = [cursor EXCEPT ![c] = q],
         LeaseInv', \A d \in Cursors : d # c => (d \in live' <=> d \in live),
         \/ Outside(r) /\ IdleInv(c, q, live')
         \/ r.cur = c /\ r.pc \notin {"idle", "repay"} /\ CallInv(t, r, q, live'),
         Calm(cursor[c], q)
  PROVE  IInv' /\ CalmStep
<1> c # NoCursor
  BY CursorAssumption
<1>1. call' \in [Threads -> CallType] /\ cursor' \in [Cursors -> CursorType]
  BY DEF IInv
<1>2. call'[t] = r /\ cursor'[c] = q
  BY DEF IInv
<1>3. \A u \in Threads : u # t => call'[u] = call[u] /\ call[u].cur # c
  BY DEF IInv
<1>4. \A d \in Cursors : d # c => cursor'[d] = cursor[d]
  BY DEF IInv
<1>5. r.cur \in {c, NoCursor}
  BY DEF Outside
<1>6. \A u, v \in Threads : call'[u].cur = call'[v].cur => u = v \/ call'[u].cur = NoCursor
  BY <1>2, <1>3, <1>5 DEF IInv
<1>7. ASSUME NEW u \in Threads
      PROVE  Outside(call'[u]) \/ Inside(u)'
  <2>1. CASE u = t
    BY <2>1, <1>2 DEF Outside, Inside
  <2>2. CASE u # t
    <3>1. call'[u] = call[u] /\ call[u].cur # c
      BY <2>2, <1>3
    <3>2. CASE Outside(call[u])
      BY <3>1, <3>2
    <3>3. CASE Inside(u)
      <4>1. call[u].cur \in Cursors
        BY <3>3 DEF IInv, CallType, Inside
      <4>2. cursor'[call[u].cur] = cursor[call[u].cur]
        BY <4>1, <3>1, <1>4
      <4>3. call[u].cur \in live' <=> call[u].cur \in live
        BY <4>1, <3>1
      <4>4. CallInv(u, call[u], cursor[call[u].cur], live)
        BY <3>3 DEF Inside
      <4>5. CallInv(u, call[u], cursor[call[u].cur], live')
        BY <4>3, <4>4 DEF CallInv, Settled
      <4> QED
        BY <3>1, <3>3, <4>2, <4>5 DEF Inside
    <3> QED
      BY <3>2, <3>3 DEF IInv
  <2> QED
    BY <2>1, <2>2
<1>8. ASSUME NEW d \in Cursors, \A u \in Threads : call'[u].cur # d
      PROVE  Idle(d)'
  <2>1. CASE d = c
    <3>1. r.cur # c
      BY <2>1, <1>2, <1>8
    <3> QED
      BY <2>1, <3>1, <1>2 DEF Idle
  <2>2. CASE d # c
    <3> d # NoCursor
      BY CursorAssumption
    <3>1. \A u \in Threads : call[u].cur # d
      BY <2>2, <1>8, <1>3
    <3>2. IdleInv(d, cursor[d], live)
      BY <3>1 DEF IInv, Idle
    <3>3. cursor'[d] = cursor[d] /\ (d \in live' <=> d \in live)
      BY <2>2, <1>4
    <3>4. IdleInv(d, cursor[d], live')
      BY <3>2, <3>3 DEF IdleInv, Settled
    <3> QED
      BY <3>3, <3>4 DEF Idle
  <2> QED
    BY <2>1, <2>2
<1>9. ASSUME NEW d \in Cursors
      PROVE  Calm(cursor[d], cursor'[d])
  <2>1. CASE d = c
    BY <2>1, <1>2
  <2>2. CASE d # c
    <3>1. cursor[d] \in CursorType
      BY DEF IInv
    <3> QED
      BY <3>1, <2>2, <1>4 DEF Calm, CursorType
  <2> QED
    BY <2>1, <2>2
<1>10. IInv'
  BY <1>1, <1>6, <1>7, <1>8 DEF IInv
<1> QED
  BY <1>9, <1>10 DEF CalmStep

(* A step of a call that is inside no cursor, before and after.                 *)
LEMMA OutsideStep ==
  ASSUME IInv, NEW t \in Threads, NEW r \in CallType, Outside(call[t]), Outside(r),
         call' = [call EXCEPT ![t] = r], UNCHANGED <<cursor, leaseVars>>
  PROVE  IInv' /\ CalmStep
<1>1. call' \in [Threads -> CallType]
  BY DEF IInv
<1>2. call'[t] = r /\ \A u \in Threads : u # t => call'[u] = call[u]
  BY DEF IInv
<1>3. cursor' = cursor /\ live' = live
  BY DEF leaseVars
<1>4. LeaseInv'
  BY DEF IInv, LeaseInv, leaseVars
<1>5. \A u \in Threads : call'[u].cur = call[u].cur
  BY <1>2 DEF Outside
<1>6. ASSUME NEW u \in Threads
      PROVE  Outside(call'[u]) \/ Inside(u)'
  <2>1. CASE u = t
    BY <2>1, <1>2
  <2>2. CASE u # t
    BY <2>2, <1>2, <1>3 DEF Inside, IInv
  <2> QED
    BY <2>1, <2>2
<1>7. \A d \in Cursors : (\A u \in Threads : call'[u].cur # d) => Idle(d)'
  BY <1>3, <1>5 DEF IInv, Idle
<1>8. CalmStep
  <2>1. \A c \in Cursors : cursor[c].ledger \in Int
    BY DEF IInv, CursorType
  <2> QED
    BY <2>1, <1>3 DEF CalmStep, Calm
<1> QED
  BY <1>1, <1>3, <1>4, <1>5, <1>6, <1>7, <1>8 DEF IInv

(* A call that has begun is inside a cursor.                                    *)
LEMMA Entered ==
  ASSUME IInv, NEW t \in Threads, call[t].pc \notin {"idle", "repay"}
  PROVE  /\ call[t].cur \in Cursors /\ call[t] \in CallType
         /\ Cur(t) \in CursorType /\ CallInv(t, call[t], Cur(t), live)
         /\ cursor = [cursor EXCEPT ![call[t].cur] = Cur(t)]
<1>1. Inside(t) /\ call[t] \in CallType
  BY DEF IInv, Outside
<1>2. call[t].cur \in Cursors
  BY <1>1 DEF Inside, CallType
<1> QED
  BY <1>1, <1>2 DEF Inside, Cur, IInv

(* LocalStep for a call inside its cursor that leaves the lease alone.          *)
LEMMA OwnStep ==
  ASSUME IInv, NEW t \in Threads, call[t].pc \notin {"idle", "repay"},
         NEW r \in CallType, NEW q \in CursorType,
         Go(t, r), SetCur(t, q), UNCHANGED leaseVars,
         \/ Outside(r) /\ IdleInv(call[t].cur, q, live)
         \/ r.cur = call[t].cur /\ r.pc \notin {"idle", "repay"} /\ CallInv(t, r, q, live),
         Calm(Cur(t), q)
  PROVE  IInv' /\ CalmStep
<1>1. call[t].cur \in Cursors
  BY Entered
<1>2. LeaseInv' /\ live' = live
  BY DEF leaseVars, IInv, LeaseInv
<1> QED
  BY <1>1, <1>2, LocalStep DEF Go, SetCur, Cur

(* OwnStep when the cursor is left alone too.                                   *)
LEMMA OwnCallStep ==
  ASSUME IInv, NEW t \in Threads, call[t].pc \notin {"idle", "repay"}, NEW r \in CallType,
         Go(t, r), UNCHANGED <<cursor, leaseVars>>,
         \/ Outside(r) /\ IdleInv(call[t].cur, Cur(t), live)
         \/ r.cur = call[t].cur /\ r.pc \notin {"idle", "repay"} /\ CallInv(t, r, Cur(t), live)
  PROVE  IInv' /\ CalmStep
<1>1. SetCur(t, Cur(t)) /\ Cur(t) \in CursorType /\ UNCHANGED leaseVars
  BY Entered DEF SetCur
<1>2. Calm(Cur(t), Cur(t))
  BY <1>1 DEF Calm, CursorType
<1> QED
  BY <1>1, <1>2, OwnStep

--------------------------------------------------------------------------------
(* One lemma per action: the new call and cursor records, their types, and the  *)
(* predicates they must satisfy.                                                *)

LEMMA EnterRejectedKeeps ==
  ASSUME IInv, NEW t \in Threads, EnterRejected(t)
  PROVE  IInv' /\ CalmStep
<1> DEFINE k == call[t]
           q == Cur(t)
           r == NewCall
<1>1. k.pc = "enter"
  BY DEF EnterRejected, At
<1>2. /\ k \in CallType /\ q \in CursorType /\ k.cur \in Cursors
      /\ CallInv(t, k, q, live)
  BY <1>1, Entered
<1>3. r \in CallType /\ q \in CursorType
  BY <1>2, CursorAssumption DEF CallType, Pcs, CursorType, Statuses, NewCall
<1>4. Outside(r) /\ IdleInv(k.cur, q, live)
  BY <1>1, <1>2 DEF EnterRejected, At, CallInv, Settled, IdleInv, Outside, NewCall, CursorType
<1>5. Go(t, r) /\ UNCHANGED <<cursor, leaseVars>>
  BY DEF EnterRejected
<1> QED
  BY <1>1, <1>3, <1>4, <1>5, OwnCallStep

LEMMA AttachKeeps ==
  ASSUME IInv, NEW t \in Threads, Attach(t)
  PROVE  IInv' /\ CalmStep
<1> DEFINE k == call[t]
           q == Cur(t)
           r == NewCall
           p == [q EXCEPT !.status = "open"]
<1>1. k.pc = "build"
  BY DEF Attach, At
<1>2. /\ k \in CallType /\ q \in CursorType /\ k.cur \in Cursors
      /\ CallInv(t, k, q, live)
  BY <1>1, Entered
<1>3. r \in CallType /\ p \in CursorType
  BY <1>2, CursorAssumption DEF CallType, Pcs, CursorType, Statuses, NewCall
<1>4. Outside(r) /\ IdleInv(k.cur, p, live)
  BY <1>1, <1>2 DEF Attach, At, CallInv, Settled, IdleInv, Outside, NewCall, CursorType
<1>5. Calm(q, p)
  BY <1>1, <1>2 DEF Calm, CallInv, Settled, CursorType, Terminal
<1>6. Go(t, r) /\ SetCur(t, p) /\ UNCHANGED leaseVars
  BY DEF Attach, Go, SetCur
<1> QED
  BY <1>1, <1>3, <1>4, <1>5, <1>6, OwnStep

LEMMA BuildFailsKeeps ==
  ASSUME IInv, NEW t \in Threads, BuildFails(t)
  PROVE  IInv' /\ CalmStep
<1> DEFINE k == call[t]
           q == Cur(t)
           r == [k EXCEPT !.pc = "close"]
<1>1. k.pc = "build"
  BY DEF BuildFails, At
<1>2. /\ k \in CallType /\ q \in CursorType /\ k.cur \in Cursors
      /\ CallInv(t, k, q, live)
  BY <1>1, Entered
<1>3. r \in CallType /\ q \in CursorType
  BY <1>2, CursorAssumption DEF CallType, Pcs, CursorType, Statuses
<1>4. /\ r.cur = k.cur /\ r.pc \notin {"idle", "repay"}
      /\ CallInv(t, r, q, live)
  BY <1>1, <1>2 DEF BuildFails, CallInv, Settled, Tokens, Terminal, CallType, CursorType
<1>5. Go(t, r) /\ UNCHANGED <<cursor, leaseVars>>
  BY DEF BuildFails
<1> QED
  BY <1>1, <1>3, <1>4, <1>5, OwnCallStep

LEMMA ExhaustedKeeps ==
  ASSUME IInv, NEW t \in Threads, Exhausted(t)
  PROVE  IInv' /\ CalmStep
<1> DEFINE k == call[t]
           q == Cur(t)
           r == [k EXCEPT !.pc = "unstage", !.end = "ended"]
<1>1. k.pc = "search"
  BY DEF Exhausted, At
<1>2. /\ k \in CallType /\ q \in CursorType /\ k.cur \in Cursors
      /\ CallInv(t, k, q, live)
  BY <1>1, Entered
<1>3. r \in CallType /\ q \in CursorType
  BY <1>2, CursorAssumption DEF CallType, Pcs, CursorType, Statuses
<1>4. /\ r.cur = k.cur /\ r.pc \notin {"idle", "repay"}
      /\ CallInv(t, r, q, live)
  BY <1>1, <1>2 DEF Exhausted, CallInv, Settled, Tokens, Terminal, CallType, CursorType
<1>5. Go(t, r) /\ UNCHANGED <<cursor, leaseVars>>
  BY DEF Exhausted
<1> QED
  BY <1>1, <1>3, <1>4, <1>5, OwnCallStep

LEMMA StageKeeps ==
  ASSUME IInv, NEW t \in Threads, Stage(t)
  PROVE  IInv' /\ CalmStep
<1> DEFINE k == call[t]
           q == Cur(t)
           r == [k EXCEPT !.pc = "staged", !.staged = ResultBytes]
           p == [q EXCEPT !.ledger = @ + ResultBytes]
<1>1. k.pc = "search"
  BY DEF Stage, At
<1>2. /\ k \in CallType /\ q \in CursorType /\ k.cur \in Cursors
      /\ CallInv(t, k, q, live)
  BY <1>1, Entered
<1>3. r \in CallType /\ p \in CursorType
  <2>1. r \in CallType
    BY <1>2, CursorAssumption DEF CallType, Pcs, CursorType, Statuses
  <2>2. q.ledger \in Int /\ k.staged \in Int /\ ResultBytes \in Int
    BY <1>2, CursorAssumption DEF CallType, CursorType
  <2>3. p.ledger \in Int
    BY <1>2, <2>2 DEF CursorType
  <2>4. p \in CursorType
    BY <1>2, <2>3 DEF CallType, CursorType
  <2> QED
    BY <2>1, <2>4
<1>4. /\ r.cur = k.cur /\ r.pc \notin {"idle", "repay"}
      /\ CallInv(t, r, p, live)
  BY <1>1, <1>2 DEF Stage, CallInv, Settled, Tokens, Terminal, CallType, CursorType
<1>5. Calm(q, p)
  BY <1>1, <1>2 DEF Calm, CallInv, Settled, CursorType, Terminal
<1>6. Go(t, r) /\ SetCur(t, p) /\ UNCHANGED leaseVars
  BY DEF Stage, Go, SetCur
<1> QED
  BY <1>1, <1>3, <1>4, <1>5, <1>6, OwnStep

LEMMA FaultsKeeps ==
  ASSUME IInv, NEW t \in Threads, Faults(t)
  PROVE  IInv' /\ CalmStep
<1> DEFINE k == call[t]
           q == Cur(t)
           r == [k EXCEPT !.pc = "unstage", !.end = "faulted"]
<1>1. k.pc = "search" \/ k.pc = "staged"
  BY DEF Faults, At
<1>2. /\ k \in CallType /\ q \in CursorType /\ k.cur \in Cursors
      /\ CallInv(t, k, q, live)
  BY <1>1, Entered
<1>3. r \in CallType /\ q \in CursorType
  BY <1>2, CursorAssumption DEF CallType, Pcs, CursorType, Statuses
<1>4. /\ r.cur = k.cur /\ r.pc \notin {"idle", "repay"}
      /\ CallInv(t, r, q, live)
  BY <1>1, <1>2 DEF Faults, CallInv, Settled, Tokens, Terminal, CallType, CursorType
<1>5. Go(t, r) /\ UNCHANGED <<cursor, leaseVars>>
  BY DEF Faults
<1> QED
  BY <1>1, <1>3, <1>4, <1>5, OwnCallStep

LEMMA PublishKeeps ==
  ASSUME IInv, NEW t \in Threads, Publish(t)
  PROVE  IInv' /\ CalmStep
<1> DEFINE k == call[t]
           q == Cur(t)
           r == [k EXCEPT !.pc = "unstage"]
<1>1. k.pc = "staged"
  BY DEF Publish, At
<1>2. /\ k \in CallType /\ q \in CursorType /\ k.cur \in Cursors
      /\ CallInv(t, k, q, live)
  BY <1>1, Entered
<1>3. r \in CallType /\ q \in CursorType
  BY <1>2, CursorAssumption DEF CallType, Pcs, CursorType, Statuses
<1>4. /\ r.cur = k.cur /\ r.pc \notin {"idle", "repay"}
      /\ CallInv(t, r, q, live)
  BY <1>1, <1>2 DEF Publish, CallInv, Settled, Tokens, Terminal, CallType, CursorType
<1>5. Go(t, r) /\ UNCHANGED <<cursor, leaseVars>>
  BY DEF Publish
<1> QED
  BY <1>1, <1>3, <1>4, <1>5, OwnCallStep

LEMMA TransferKeeps ==
  ASSUME IInv, NEW t \in Threads, Transfer(t)
  PROVE  IInv' /\ CalmStep
<1> DEFINE k == call[t]
           q == Cur(t)
           r == [k EXCEPT !.pc = "unstage", !.staged = 0]
           p == [q EXCEPT !.ledger = @ - k.staged]
<1>1. k.pc = "staged"
  BY DEF Transfer, At
<1>2. /\ k \in CallType /\ q \in CursorType /\ k.cur \in Cursors
      /\ CallInv(t, k, q, live)
  BY <1>1, Entered
<1>3. r \in CallType /\ p \in CursorType
  <2>1. r \in CallType
    BY <1>2, CursorAssumption DEF CallType, Pcs, CursorType, Statuses
  <2>2. q.ledger \in Int /\ k.staged \in Int /\ ResultBytes \in Int
    BY <1>2, CursorAssumption DEF CallType, CursorType
  <2>3. p.ledger \in Int
    BY <1>2, <2>2 DEF CursorType
  <2>4. p \in CursorType
    BY <1>2, <2>3 DEF CallType, CursorType
  <2> QED
    BY <2>1, <2>4
<1>4. /\ r.cur = k.cur /\ r.pc \notin {"idle", "repay"}
      /\ CallInv(t, r, p, live)
  BY <1>1, <1>2 DEF Transfer, CallInv, Settled, Tokens, Terminal, CallType, CursorType
<1>5. Calm(q, p)
  BY <1>1, <1>2 DEF Calm, CallInv, Settled, CursorType, Terminal
<1>6. Go(t, r) /\ SetCur(t, p) /\ UNCHANGED leaseVars
  BY DEF Transfer, Go, SetCur
<1> QED
  BY <1>1, <1>3, <1>4, <1>5, <1>6, OwnStep

LEMMA GrantKeeps ==
  ASSUME IInv, NEW t \in Threads, Grant(t)
  PROVE  IInv' /\ CalmStep
<1> DEFINE k == call[t]
           q == Cur(t)
           r == [k EXCEPT !.pc = "granted", !.granted = k.staged]
<1>1. k.pc = "staged"
  BY DEF Grant, At
<1>2. /\ k \in CallType /\ q \in CursorType /\ k.cur \in Cursors
      /\ CallInv(t, k, q, live)
  BY <1>1, Entered
<1>3. r \in CallType /\ q \in CursorType
  BY <1>2, CursorAssumption DEF CallType, Pcs, CursorType, Statuses
<1>4. /\ r.cur = k.cur /\ r.pc \notin {"idle", "repay"}
      /\ CallInv(t, r, q, live)
  BY <1>1, <1>2 DEF Grant, CallInv, Settled, Tokens, Terminal, CallType, CursorType
<1>5. Go(t, r) /\ UNCHANGED <<cursor, leaseVars>>
  BY DEF Grant
<1> QED
  BY <1>1, <1>3, <1>4, <1>5, OwnCallStep

LEMMA UngrantKeeps ==
  ASSUME IInv, NEW t \in Threads, Ungrant(t)
  PROVE  IInv' /\ CalmStep
<1> DEFINE k == call[t]
           q == Cur(t)
           r == [k EXCEPT !.pc = "unstage", !.granted = 0, !.end = "faulted"]
<1>1. k.pc = "granted"
  BY DEF Ungrant, At
<1>2. /\ k \in CallType /\ q \in CursorType /\ k.cur \in Cursors
      /\ CallInv(t, k, q, live)
  BY <1>1, Entered
<1>3. r \in CallType /\ q \in CursorType
  BY <1>2, CursorAssumption DEF CallType, Pcs, CursorType, Statuses
<1>4. /\ r.cur = k.cur /\ r.pc \notin {"idle", "repay"}
      /\ CallInv(t, r, q, live)
  BY <1>1, <1>2 DEF Ungrant, CallInv, Settled, Tokens, Terminal, CallType, CursorType
<1>5. Go(t, r) /\ UNCHANGED <<cursor, leaseVars>>
  BY DEF Ungrant
<1> QED
  BY <1>1, <1>3, <1>4, <1>5, OwnCallStep

LEMMA ReleaseStagingKeeps ==
  ASSUME IInv, NEW t \in Threads, ReleaseStaging(t)
  PROVE  IInv' /\ CalmStep
<1> DEFINE k == call[t]
           q == Cur(t)
           r == [k EXCEPT !.pc = "fill", !.staged = 0]
           p == [q EXCEPT !.ledger = @ - k.staged]
<1>1. k.pc = "granted"
  BY DEF ReleaseStaging, At
<1>2. /\ k \in CallType /\ q \in CursorType /\ k.cur \in Cursors
      /\ CallInv(t, k, q, live)
  BY <1>1, Entered
<1>3. r \in CallType /\ p \in CursorType
  <2>1. r \in CallType
    BY <1>2, CursorAssumption DEF CallType, Pcs, CursorType, Statuses
  <2>2. q.ledger \in Int /\ k.staged \in Int /\ ResultBytes \in Int
    BY <1>2, CursorAssumption DEF CallType, CursorType
  <2>3. p.ledger \in Int
    BY <1>2, <2>2 DEF CursorType
  <2>4. p \in CursorType
    BY <1>2, <2>3 DEF CallType, CursorType
  <2> QED
    BY <2>1, <2>4
<1>4. /\ r.cur = k.cur /\ r.pc \notin {"idle", "repay"}
      /\ CallInv(t, r, p, live)
  BY <1>1, <1>2 DEF ReleaseStaging, CallInv, Settled, Tokens, Terminal, CallType, CursorType
<1>5. Calm(q, p)
  BY <1>1, <1>2 DEF Calm, CallInv, Settled, CursorType, Terminal
<1>6. Go(t, r) /\ SetCur(t, p) /\ UNCHANGED leaseVars
  BY DEF ReleaseStaging, Go, SetCur
<1> QED
  BY <1>1, <1>3, <1>4, <1>5, <1>6, OwnStep

LEMMA FillKeeps ==
  ASSUME IInv, NEW t \in Threads, Fill(t)
  PROVE  IInv' /\ CalmStep
<1> DEFINE k == call[t]
           q == Cur(t)
           r == [k EXCEPT !.pc = "unstage", !.granted = 0]
<1>1. k.pc = "fill"
  BY DEF Fill, At
<1>2. /\ k \in CallType /\ q \in CursorType /\ k.cur \in Cursors
      /\ CallInv(t, k, q, live)
  BY <1>1, Entered
<1>3. r \in CallType /\ q \in CursorType
  BY <1>2, CursorAssumption DEF CallType, Pcs, CursorType, Statuses
<1>4. /\ r.cur = k.cur /\ r.pc \notin {"idle", "repay"}
      /\ CallInv(t, r, q, live)
  BY <1>1, <1>2 DEF Fill, CallInv, Settled, Tokens, Terminal, CallType, CursorType
<1>5. Go(t, r) /\ UNCHANGED <<cursor, leaseVars>>
  BY DEF Fill
<1> QED
  BY <1>1, <1>3, <1>4, <1>5, OwnCallStep

LEMMA UnstageKeeps ==
  ASSUME IInv, NEW t \in Threads, Unstage(t)
  PROVE  IInv' /\ CalmStep
<1> DEFINE k == call[t]
           q == Cur(t)
           r == [k EXCEPT !.staged = 0, !.pc = IF k.end = "ended" THEN "close" ELSE "restore"]
           p == [q EXCEPT !.ledger = @ - k.staged]
<1>1. k.pc = "unstage"
  BY DEF Unstage, At
<1>2. /\ k \in CallType /\ q \in CursorType /\ k.cur \in Cursors
      /\ CallInv(t, k, q, live)
  BY <1>1, Entered
<1>3. r \in CallType /\ p \in CursorType
  <2>1. r \in CallType
    BY <1>2, CursorAssumption DEF CallType, Pcs, CursorType, Statuses
  <2>2. q.ledger \in Int /\ k.staged \in Int /\ ResultBytes \in Int
    BY <1>2, CursorAssumption DEF CallType, CursorType
  <2>3. p.ledger \in Int
    BY <1>2, <2>2 DEF CursorType
  <2>4. p \in CursorType
    BY <1>2, <2>3 DEF CallType, CursorType
  <2> QED
    BY <2>1, <2>4
<1>4. /\ r.cur = k.cur /\ r.pc \notin {"idle", "repay"}
      /\ CallInv(t, r, p, live)
  BY <1>1, <1>2 DEF Unstage, CallInv, Settled, Tokens, Terminal, CallType, CursorType
<1>5. Calm(q, p)
  BY <1>1, <1>2 DEF Calm, CallInv, Settled, CursorType, Terminal
<1>6. Go(t, r) /\ SetCur(t, p) /\ UNCHANGED leaseVars
  BY DEF Unstage, Go, SetCur
<1> QED
  BY <1>1, <1>3, <1>4, <1>5, <1>6, OwnStep

LEMMA RestoreKeeps ==
  ASSUME IInv, NEW t \in Threads, Restore(t)
  PROVE  IInv' /\ CalmStep
<1> DEFINE k == call[t]
           q == Cur(t)
           r == [k EXCEPT !.pc = IF q.status = "open" /\ k.end = "faulted"
                             THEN "close" ELSE "exit"]
           p == [q EXCEPT !.tokens = {"original"}]
<1>1. k.pc = "restore"
  BY DEF Restore, At
<1>2. /\ k \in CallType /\ q \in CursorType /\ k.cur \in Cursors
      /\ CallInv(t, k, q, live)
  BY <1>1, Entered
<1>3. r \in CallType /\ p \in CursorType
  BY <1>2, CursorAssumption DEF CallType, Pcs, CursorType, Statuses
<1>4. /\ r.cur = k.cur /\ r.pc \notin {"idle", "repay"}
      /\ CallInv(t, r, p, live)
  BY <1>1, <1>2 DEF Restore, CallInv, Settled, Tokens, Terminal, CallType, CursorType
<1>5. Calm(q, p)
  BY <1>1, <1>2 DEF Calm, CallInv, Settled, CursorType, Terminal
<1>6. Go(t, r) /\ SetCur(t, p) /\ UNCHANGED leaseVars
  BY DEF Restore, Go, SetCur
<1> QED
  BY <1>1, <1>3, <1>4, <1>5, <1>6, OwnStep

LEMMA CloseKeeps ==
  ASSUME IInv, NEW t \in Threads, Close(t)
  PROVE  IInv' /\ CalmStep
<1> DEFINE k == call[t]
           q == Cur(t)
           r == [k EXCEPT !.pc = "endUse"]
           p == [q EXCEPT !.status = k.end, !.ledger = 0]
<1>1. k.pc = "close"
  BY DEF Close, At
<1>2. /\ k \in CallType /\ q \in CursorType /\ k.cur \in Cursors
      /\ CallInv(t, k, q, live)
  BY <1>1, Entered
<1>3. r \in CallType /\ p \in CursorType
  <2>1. r \in CallType
    BY <1>2, CursorAssumption DEF CallType, Pcs, CursorType, Statuses
  <2>2. q.ledger \in Int /\ k.staged \in Int /\ ResultBytes \in Int
    BY <1>2, CursorAssumption DEF CallType, CursorType
  <2>3. p.ledger \in Int
    BY <1>2, <2>2 DEF CursorType
  <2>4. p \in CursorType
    BY <1>2, <2>3 DEF CallType, CursorType
  <2> QED
    BY <2>1, <2>4
<1>4. /\ r.cur = k.cur /\ r.pc \notin {"idle", "repay"}
      /\ CallInv(t, r, p, live)
  BY <1>1, <1>2 DEF Close, CallInv, Settled, Tokens, Terminal, CallType, CursorType
<1>5. Calm(q, p)
  BY <1>1, <1>2 DEF Calm, CallInv, Settled, CursorType, Terminal
<1>6. Go(t, r) /\ SetCur(t, p) /\ UNCHANGED leaseVars
  BY DEF Close, Go, SetCur
<1> QED
  BY <1>1, <1>3, <1>4, <1>5, <1>6, OwnStep

LEMMA ExitKeeps ==
  ASSUME IInv, NEW t \in Threads, Exit(t)
  PROVE  IInv' /\ CalmStep
<1> DEFINE k == call[t]
           q == Cur(t)
           r == NewCall
           p == [q EXCEPT !.active = NoThread]
<1>1. k.pc = "exit"
  BY DEF Exit, At
<1>2. /\ k \in CallType /\ q \in CursorType /\ k.cur \in Cursors
      /\ CallInv(t, k, q, live)
  BY <1>1, Entered
<1>3. r \in CallType /\ p \in CursorType
  BY <1>2, CursorAssumption DEF CallType, Pcs, CursorType, Statuses, NewCall
<1>4. Outside(r) /\ IdleInv(k.cur, p, live)
  BY <1>1, <1>2 DEF Exit, At, CallInv, Settled, IdleInv, Outside, NewCall, CursorType
<1>5. Calm(q, p)
  BY <1>1, <1>2 DEF Calm, CallInv, Settled, CursorType, Terminal
<1>6. Go(t, r) /\ SetCur(t, p) /\ UNCHANGED leaseVars
  BY DEF Exit, Go, SetCur
<1> QED
  BY <1>1, <1>3, <1>4, <1>5, <1>6, OwnStep

LEMMA BuildScratchKeeps ==
  ASSUME IInv, NEW t \in Threads, BuildScratch(t)
  PROVE  IInv' /\ CalmStep
<1> DEFINE k == call[t]
           q == Cur(t)
           p == [q EXCEPT !.ledger = ScratchBytes]
<1>1. k.pc = "build"
  BY DEF BuildScratch, At
<1>2. /\ k \in CallType /\ q \in CursorType /\ k.cur \in Cursors
      /\ CallInv(t, k, q, live)
  BY <1>1, Entered
<1>3. p \in CursorType
  BY <1>2, CursorAssumption DEF CursorType
<1>4. /\ k.pc \notin {"idle", "repay"}
      /\ CallInv(t, k, p, live)
  BY <1>1, <1>2 DEF CallInv, CursorType
<1>5. Calm(q, p)
  BY <1>1, <1>2 DEF Calm, CallInv, Terminal
<1>6. Go(t, k) /\ SetCur(t, p) /\ UNCHANGED leaseVars
  BY DEF BuildScratch, Go, SetCur, IInv
<1> QED
  BY <1>1, <1>2, <1>3, <1>4, <1>5, <1>6, OwnStep

LEMMA CheckKeeps ==
  ASSUME IInv, NEW t \in Threads, Check(t)
  PROVE  IInv' /\ CalmStep
<1> DEFINE k == call[t]
           q == Cur(t)
<1>1. k.pc = "check"
  BY DEF Check, At
<1>2. /\ k \in CallType /\ q \in CursorType /\ k.cur \in Cursors
      /\ CallInv(t, k, q, live)
  BY <1>1, Entered
<1>3. CASE q.status = "open"
  <2> DEFINE r == [k EXCEPT !.pc = "search"]
             p == [q EXCEPT !.tokens = Borrowed(t)]
  <2>1. r \in CallType /\ p \in CursorType
    BY <1>2 DEF CallType, Pcs, CursorType, Borrowed
  <2>2. /\ r.cur = k.cur /\ r.pc \notin {"idle", "repay"}
        /\ CallInv(t, r, p, live)
    BY <1>1, <1>2, <1>3 DEF CallInv, Tokens, Borrowed, CallType, CursorType
  <2>3. Calm(q, p)
    BY <1>3 DEF Calm, Terminal
  <2>4. Go(t, r) /\ SetCur(t, p) /\ UNCHANGED leaseVars
    BY <1>3 DEF Check, Advances, Cur
  <2> QED
    BY <1>1, <2>1, <2>2, <2>3, <2>4, OwnStep
<1>4. CASE q.status # "open"
  <2> DEFINE r == [k EXCEPT !.pc = "exit"]
  <2>1. r \in CallType
    BY <1>2 DEF CallType, Pcs
  <2>2. /\ r.cur = k.cur /\ r.pc \notin {"idle", "repay"}
        /\ CallInv(t, r, q, live)
    BY <1>1, <1>2, <1>4 DEF CallInv, Settled, CallType, CursorType
  <2>3. Go(t, r) /\ UNCHANGED <<cursor, leaseVars>>
    BY <1>4 DEF Check, Advances, Cur
  <2> QED
    BY <1>1, <2>1, <2>2, <2>3, OwnCallStep
<1> QED
  BY <1>3, <1>4

LEMMA EnterStorageKeeps ==
  ASSUME IInv, NEW t \in Threads, EnterStorage(t)
  PROVE  IInv' /\ CalmStep
<1> DEFINE k == call[t]
           q == Cur(t)
           r == [k EXCEPT !.pc = "build"]
           p == [q EXCEPT !.working = k.to]
<1>1. k.pc = "enter" /\ ~closed
  BY DEF EnterStorage, At
<1>2. /\ k \in CallType /\ q \in CursorType /\ k.cur \in Cursors
      /\ CallInv(t, k, q, live)
  BY <1>1, Entered
<1>3. r \in CallType /\ p \in CursorType
  BY <1>2 DEF CallType, Pcs, CursorType
<1>4. /\ live' = live \cup {k.cur}
      /\ UNCHANGED <<paid, handed, closed>>
  BY DEF EnterStorage, Lease!Grant
<1>5. LeaseInv'
  BY <1>1, <1>2, <1>4 DEF IInv, LeaseInv
<1>6. /\ r.cur = k.cur /\ r.pc \notin {"idle", "repay"}
      /\ CallInv(t, r, p, live')
  BY <1>1, <1>2, <1>4 DEF CallInv, Settled, CallType, CursorType
<1>7. Calm(q, p)
  BY <1>1, <1>2 DEF Calm, CallInv, Terminal
<1>8. call' = [call EXCEPT ![t] = r] /\ cursor' = [cursor EXCEPT ![k.cur] = p]
  BY DEF EnterStorage, Go, SetCur
<1> HIDE DEF r, p
<1> QED
  BY <1>2, <1>3, <1>4, <1>5, <1>6, <1>7, <1>8, LocalStep DEF Cur

LEMMA EndUseKeeps ==
  ASSUME IInv, NEW t \in Threads, EndUse(t)
  PROVE  IInv' /\ CalmStep
<1> DEFINE k == call[t]
           q == Cur(t)
           r == [k EXCEPT !.pc = IF k.end = "ended" THEN "restore" ELSE "exit"]
<1>1. k.pc = "endUse"
  BY DEF EndUse, At
<1>2. /\ k \in CallType /\ q \in CursorType /\ k.cur \in Cursors
      /\ CallInv(t, k, q, live) /\ cursor = [cursor EXCEPT ![k.cur] = q]
  BY <1>1, Entered
<1>3. r \in CallType
  BY <1>2 DEF CallType, Pcs
<1>4. /\ live' = live \ {k.cur}
      /\ UNCHANGED <<paid, handed, closed>>
  <2>1. CASE k.cur \in live
    BY <2>1 DEF EndUse, Lease!End
  <2>2. CASE k.cur \notin live
    BY <2>2 DEF EndUse, leaseVars
  <2> QED
    BY <2>1, <2>2
<1>5. LeaseInv'
  BY <1>2, <1>4 DEF IInv, LeaseInv
<1>6. /\ r.cur = k.cur /\ r.pc \notin {"idle", "repay"}
      /\ CallInv(t, r, q, live')
  BY <1>1, <1>2, <1>4 DEF CallInv, Settled, Tokens, CallType, CursorType
<1>7. Calm(q, q)
  BY <1>2 DEF Calm, CursorType
<1>8. call' = [call EXCEPT ![t] = r] /\ cursor' = [cursor EXCEPT ![k.cur] = q]
  BY <1>2 DEF EndUse, Go
<1> HIDE DEF r
<1> QED
  BY <1>2, <1>3, <1>4, <1>5, <1>6, <1>7, <1>8, LocalStep DEF Cur

--------------------------------------------------------------------------------
(* Calls that begin.  A cursor whose gate is free is one that no call is in.    *)
LEMMA Free ==
  ASSUME IInv, NEW t \in Threads, NEW c \in Cursors, At(t, "idle"),
         \/ cursor[c].status # "unborn" /\ cursor[c].active = NoThread
         \/ \A u \in Threads : call[u].cur # c
  PROVE  /\ call[t].cur = NoCursor /\ \A u \in Threads : call[u].cur # c
         /\ cursor[c] \in CursorType /\ IdleInv(c, cursor[c], live)
<1> c # NoCursor
  BY CursorAssumption
<1>1. call[t].cur = NoCursor
  BY DEF IInv, Outside, Inside, At
<1>2. ASSUME NEW u \in Threads, call[u].cur = c,
             cursor[c].status # "unborn", cursor[c].active = NoThread
      PROVE  FALSE
  <2>1. Inside(u)
    BY <1>2 DEF IInv, Outside
  <2>2. cursor[c].active = u
    BY <1>2, <2>1 DEF Inside, CallInv
  <2> QED
    BY <1>2, <2>2, CursorAssumption
<1>3. \A u \in Threads : call[u].cur # c
  BY <1>2
<1> QED
  BY <1>1, <1>3 DEF IInv, Idle

LEMMA ReadRootKeeps ==
  ASSUME IInv, NEW t \in Threads, NEW c \in Cursors, NEW a \in Accounts, ReadRoot(t, c, a)
  PROVE  IInv' /\ CalmStep
<1> DEFINE q == cursor[c]
           r == [NewCall EXCEPT !.pc = "enter", !.cur = c, !.to = a, !.end = "unborn"]
<1>1. /\ call[t].cur = NoCursor /\ \A u \in Threads : call[u].cur # c
      /\ q \in CursorType /\ IdleInv(c, q, live)
  BY Free DEF ReadRoot
<1>2. r \in CallType
  BY CursorAssumption DEF CallType, Pcs, NewCall, Statuses
<1>3. r.cur = c /\ r.pc \notin {"idle", "repay"} /\ CallInv(t, r, q, live)
  BY <1>1 DEF ReadRoot, NewCall, CallInv, IdleInv, Settled, CursorType
<1>4. LeaseInv' /\ live' = live
  BY DEF ReadRoot, leaseVars, IInv, LeaseInv
<1>5. call' = [call EXCEPT ![t] = r] /\ cursor' = [cursor EXCEPT ![c] = q]
  BY DEF ReadRoot, Go, IInv
<1>6. Calm(q, q)
  BY <1>1 DEF Calm, CursorType
<1> HIDE DEF r
<1> QED
  BY <1>1, <1>2, <1>3, <1>4, <1>5, <1>6, LocalStep

LEMMA MoveNextKeeps ==
  ASSUME IInv, NEW t \in Threads, NEW c \in Cursors, NEW f \in Receipts \cup {NoReceipt},
         NEW a \in Accounts, NEW own \in BOOLEAN, MoveNext(t, c, f, a, own)
  PROVE  IInv' /\ CalmStep
<1> DEFINE p == [cursor[c] EXCEPT !.active = t]
           r == [NewCall EXCEPT !.pc = "check", !.cur = c, !.fill = f, !.to = a, !.own = own]
<1>1. /\ call[t].cur = NoCursor /\ \A u \in Threads : call[u].cur # c
      /\ cursor[c] \in CursorType /\ IdleInv(c, cursor[c], live)
  BY Free DEF MoveNext, Acquire
<1>2. r \in CallType /\ p \in CursorType
  BY <1>1, CursorAssumption DEF CallType, Pcs, NewCall, Statuses, CursorType
<1>3. r.cur = c /\ r.pc \notin {"idle", "repay"} /\ CallInv(t, r, p, live)
  BY <1>1 DEF MoveNext, Acquire, NewCall, CallInv, IdleInv, Settled, CursorType
<1>4. LeaseInv' /\ live' = live
  BY DEF MoveNext, leaseVars, IInv, LeaseInv
<1>5. call' = [call EXCEPT ![t] = r] /\ cursor' = [cursor EXCEPT ![c] = p]
  BY DEF MoveNext, Acquire, Go, IInv
<1>6. Calm(cursor[c], p)
  BY <1>1 DEF Calm, CursorType
<1> HIDE DEF r, p
<1> QED
  BY <1>1, <1>2, <1>3, <1>4, <1>5, <1>6, LocalStep

LEMMA DisposeKeeps ==
  ASSUME IInv, NEW t \in Threads, NEW c \in Cursors, Dispose(t, c)
  PROVE  IInv' /\ CalmStep
<1> DEFINE p == [cursor[c] EXCEPT !.active = t]
           r == [NewCall EXCEPT !.pc = "close", !.cur = c, !.end = "disposed"]
<1>1. /\ At(t, "idle") /\ cursor[c].status # "unborn" /\ cursor[c].active = NoThread
  BY DEF Dispose, Acquire
<1>2. /\ call[t].cur = NoCursor /\ \A u \in Threads : call[u].cur # c
      /\ cursor[c] \in CursorType /\ IdleInv(c, cursor[c], live)
  BY <1>1, Free
<1>3. r \in CallType /\ p \in CursorType
  BY <1>2, CursorAssumption DEF CallType, Pcs, NewCall, Statuses, CursorType
<1>4. r.cur = c /\ r.pc \notin {"idle", "repay"} /\ CallInv(t, r, p, live)
  BY <1>1, <1>2 DEF NewCall, CallInv, IdleInv, Settled, Terminal, CursorType
<1>5. LeaseInv' /\ live' = live
  BY DEF Dispose, leaseVars, IInv, LeaseInv
<1>6. call' = [call EXCEPT ![t] = r] /\ cursor' = [cursor EXCEPT ![c] = p]
  BY DEF Dispose, Acquire, Go, IInv
<1>7. Calm(cursor[c], p)
  BY <1>2 DEF Calm, CursorType
<1> HIDE DEF r, p
<1> QED
  BY <1>2, <1>3, <1>4, <1>5, <1>6, <1>7, LocalStep

LEMMA TakeAllowanceKeeps ==
  ASSUME IInv, NEW t \in Threads, NEW f \in Receipts, TakeAllowance(t, f)
  PROVE  IInv' /\ CalmStep
<1> DEFINE r == [NewCall EXCEPT !.pc = "repay", !.fill = f]
<1>1. r \in CallType /\ Outside(r)
  BY CursorAssumption DEF CallType, Pcs, NewCall, Statuses, Outside
<1>2. Outside(call[t])
  BY DEF TakeAllowance, At, IInv, Inside
<1>3. call' = [call EXCEPT ![t] = r] /\ UNCHANGED <<cursor, leaseVars>>
  BY DEF TakeAllowance, Go
<1> QED
  BY <1>1, <1>2, <1>3, OutsideStep

LEMMA RepayKeeps ==
  ASSUME IInv, NEW t \in Threads, Repay(t)
  PROVE  IInv' /\ CalmStep
<1>1. NewCall \in CallType /\ Outside(NewCall)
  BY CursorAssumption DEF CallType, Pcs, NewCall, Statuses, Outside
<1>2. Outside(call[t])
  BY DEF Repay, At, IInv, Inside
<1>3. call' = [call EXCEPT ![t] = NewCall] /\ UNCHANGED <<cursor, leaseVars>>
  BY DEF Repay, Go
<1> QED
  BY <1>1, <1>2, <1>3, OutsideStep

(* The owner's steps, and stuttering, touch no call, no cursor and no use.      *)
LEMMA QuietStep ==
  ASSUME IInv, UNCHANGED <<call, cursor, live>>, LeaseInv'
  PROVE  IInv' /\ CalmStep
<1>1. \A t \in Threads : Inside(t)' <=> Inside(t)
  BY DEF Inside
<1>2. \A c \in Cursors : Idle(c)' <=> Idle(c)
  BY DEF Idle
<1>3. \A c \in Cursors : cursor[c].ledger \in Int
  BY DEF IInv, CursorType
<1>4. CalmStep
  BY <1>3 DEF CalmStep, Calm
<1> QED
  BY <1>1, <1>2, <1>4 DEF IInv

LEMMA OwnerKeeps ==
  ASSUME IInv, DropRoot \/ CloseStorage \/ Refund \/ UNCHANGED vars
  PROVE  IInv' /\ CalmStep
<1>1. UNCHANGED <<call, cursor, live>> /\ LeaseInv'
  <2> LeaseInv
    BY DEF IInv
  <2>1. CASE DropRoot
    BY <2>1 DEF DropRoot, leaseVars, LeaseInv
  <2>2. CASE CloseStorage
    BY <2>2 DEF CloseStorage, Lease!Close, LeaseInv
  <2>3. CASE Refund
    BY <2>3 DEF Refund, Lease!Refund, LeaseInv
  <2>4. CASE UNCHANGED vars
    BY <2>4 DEF vars, leaseVars, LeaseInv
  <2> QED
    BY <2>1, <2>2, <2>3, <2>4
<1> QED
  BY <1>1, QuietStep

--------------------------------------------------------------------------------
LEMMA InitInvariant == Init => IInv
<1> SUFFICES ASSUME Init PROVE IInv
  OBVIOUS
<1>1. call \in [Threads -> CallType] /\ cursor \in [Cursors -> CursorType]
  BY CursorAssumption DEF Init, NewCall, NewCursor, CallType, CursorType, Pcs, Statuses
<1>2. LeaseInv
  BY CursorAssumption DEF Init, LeaseInv
<1>3. \A t \in Threads : call[t].cur = NoCursor /\ Outside(call[t])
  BY DEF Init, NewCall, Outside
<1>4. \A c \in Cursors : Idle(c)
  BY DEF Init, Idle, IdleInv, NewCursor, Settled
<1> QED
  BY <1>1, <1>2, <1>3, <1>4 DEF IInv

LEMMA StepKeeps ==
  ASSUME IInv, [Next]_vars
  PROVE  IInv' /\ CalmStep
<1>1. CASE DropRoot \/ CloseStorage \/ Refund \/ UNCHANGED vars
  BY <1>1, OwnerKeeps
<1>2. ASSUME NEW t \in Threads, Step(t)
      PROVE  IInv' /\ CalmStep
  <2>1. CASE EnterStorage(t) \/ EnterRejected(t) \/ BuildScratch(t) \/ Attach(t)
    BY <2>1, EnterStorageKeeps, EnterRejectedKeeps, BuildScratchKeeps, AttachKeeps
  <2>2. CASE Check(t) \/ Exhausted(t) \/ Stage(t) \/ Publish(t) \/ Transfer(t)
    BY <2>2, CheckKeeps, ExhaustedKeeps, StageKeeps, PublishKeeps, TransferKeeps
  <2>3. CASE Grant(t) \/ ReleaseStaging(t) \/ Fill(t) \/ Unstage(t) \/ Restore(t)
    BY <2>3, GrantKeeps, ReleaseStagingKeeps, FillKeeps, UnstageKeeps, RestoreKeeps
  <2>4. CASE Close(t) \/ EndUse(t) \/ Exit(t) \/ Repay(t)
    BY <2>4, CloseKeeps, EndUseKeeps, ExitKeeps, RepayKeeps
  <2> QED
    BY <1>2, <2>1, <2>2, <2>3, <2>4 DEF Step
<1>3. ASSUME NEW t \in Threads, BuildFails(t) \/ Faults(t) \/ Ungrant(t)
      PROVE  IInv' /\ CalmStep
  BY <1>3, BuildFailsKeeps, FaultsKeeps, UngrantKeeps
<1>4. ASSUME NEW t \in Threads, NEW c \in Cursors,
             \/ Dispose(t, c)
             \/ \E a \in Accounts : ReadRoot(t, c, a)
             \/ \E f \in Receipts \cup {NoReceipt}, a \in Accounts, own \in BOOLEAN :
                  MoveNext(t, c, f, a, own)
      PROVE  IInv' /\ CalmStep
  BY <1>4, DisposeKeeps, ReadRootKeeps, MoveNextKeeps
<1>5. ASSUME NEW t \in Threads, NEW f \in Receipts, TakeAllowance(t, f)
      PROVE  IInv' /\ CalmStep
  BY <1>5, TakeAllowanceKeeps
<1> QED
  BY <1>1, <1>2, <1>3, <1>4, <1>5 DEF Next

(* The inductive invariant: every call and every idle cursor is in one of the   *)
(* states that the exits of MoveNextCore, Close and the constructor leave.      *)
THEOREM Invariance == Spec => []IInv
<1>1. IInv /\ [Next]_vars => IInv'
  BY StepKeeps
<1> QED
  BY <1>1, InitInvariant, PTL DEF Spec

(* While a cursor of the program is open the compilation stays charged, however *)
(* the owner's Dispose interleaves with creations, advances and closings.       *)
THEOREM CursorsKeepProgramFunded == Spec => []OpenCursorsFunded
<1>1. IInv => OpenCursorsFunded
  <2> SUFFICES ASSUME IInv, NEW c \in Cursors, cursor[c].status = "open"
               PROVE  paid = ProgramBytes
    BY DEF OpenCursorsFunded
  <2>1. c \in live
    <3>1. CASE \A t \in Threads : call[t].cur # c
      BY <3>1 DEF IInv, Idle, IdleInv
    <3>2. CASE \E t \in Threads : call[t].cur = c
      <4>1. PICK t \in Threads : call[t].cur = c
        BY <3>2
      <4>2. Inside(t)
        BY <4>1, CursorAssumption DEF IInv, Outside
      <4> QED
        BY <4>1, <4>2 DEF Inside, CallInv
    <3> QED
      BY <3>1, <3>2
  <2> QED
    BY <2>1 DEF IInv, LeaseInv
<1> QED
  BY <1>1, Invariance, PTL

(* A cursor that nobody is in and that is not open holds no scratch and no use  *)
(* of the program: no exit path of Close, of an advance or of the constructor   *)
(* leaks either.                                                                *)
THEOREM ClosedCursorsHoldNothing == Spec => []ClosedHoldsNothing
<1>1. IInv => ClosedHoldsNothing
  BY DEF IInv, Idle, IdleInv, Settled, ClosedHoldsNothing
<1> QED
  BY <1>1, Invariance, PTL

(* One call at a time is inside a cursor, an advance answers to the original    *)
(* token and to its own, and the original one is back when nobody is inside.    *)
THEOREM OneCallAndItsTokens == Spec => []TokenAuthority
<1>1. IInv => TokenAuthority
  <2> SUFFICES ASSUME IInv
               PROVE  TokenAuthority
    OBVIOUS
  <2>1. ASSUME NEW t \in Threads, call[t].pc \in {"search", "staged", "granted", "fill"}
        PROVE  Cur(t).tokens = {"original"} \cup (IF call[t].own THEN {"advance"} ELSE {})
    <3>1. CallInv(t, call[t], Cur(t), live)
      BY <2>1, Entered
    <3> QED
      BY <2>1, <3>1 DEF CallInv, Tokens
  <2>2. ASSUME NEW c \in Cursors, cursor[c].active = NoThread
        PROVE  cursor[c].tokens = {"original"}
    <3>1. CASE \A t \in Threads : call[t].cur # c
      BY <3>1 DEF IInv, Idle, IdleInv
    <3>2. CASE \E t \in Threads : call[t].cur = c
      <4>1. PICK t \in Threads : call[t].cur = c
        BY <3>2
      <4>2. Inside(t)
        BY <4>1, CursorAssumption DEF IInv, Outside
      <4>3. CallInv(t, call[t], cursor[c], live)
        BY <4>1, <4>2 DEF Inside
      <4>4. cursor[c].status = "unborn"
        BY <2>2, <4>3, CursorAssumption DEF CallInv
      <4>5. cursor[c].status \in Statuses /\ call[t].pc \in Pcs
        BY DEF IInv, CallType, CursorType
      <4> QED
        BY <4>2, <4>3, <4>4, <4>5 DEF CallInv, Inside, Pcs
    <3> QED
      BY <3>1, <3>2
  <2>3. \A t, u \in Threads : call[t].cur = call[u].cur => t = u \/ call[t].cur = NoCursor
    BY DEF IInv
  <2> QED
    BY <2>1, <2>2, <2>3 DEF TokenAuthority
<1> QED
  BY <1>1, Invariance, PTL

(* Nothing an ended, failed or disposed cursor is asked afterwards reopens it   *)
(* or makes it reserve again.                                                   *)
THEOREM ClosingIsFinal == Spec => TerminalStays
<1>1. IInv /\ [Next]_vars =>
        [\A c \in Cursors : cursor[c].status \in Terminal =>
           /\ cursor'[c].status \in {cursor[c].status, "disposed"}
           /\ cursor'[c].ledger <= cursor[c].ledger]_vars
  BY StepKeeps DEF CalmStep, Calm
<1> QED
  BY <1>1, Invariance, PTL DEF Spec, TerminalStays

--------------------------------------------------------------------------------
(* The second invariant: what the ledgers, the receipts and the host allowances *)
(* say of one another.  It is inductive together with IInv.                     *)

ReceiptType == [held : BOOLEAN, bytes : Nat, on : Accounts]

(* The bytes a call has staged and been granted, by the step it is about to     *)
(* take; the calls that hold or repay a loan for a receipt have one.            *)
Staging(k) ==
  /\ k.pc = "staged" => k.staged = ResultBytes /\ k.granted = 0
  /\ k.pc = "granted" => k.staged = ResultBytes /\ k.granted = ResultBytes
  /\ k.pc = "fill" => k.staged = 0 /\ k.granted = ResultBytes
  /\ k.pc = "unstage" => k.staged \in {0, ResultBytes} /\ k.granted = 0
  /\ k.pc \notin {"staged", "granted", "fill", "unstage"} => k.staged = 0 /\ k.granted = 0
  /\ k.pc \in {"granted", "fill", "repay"} => k.fill # NoReceipt

(* What the ledger of its cursor must still hold for a call.                    *)
Covered(t) == call[t].cur # NoCursor => call[t].staged <= cursor[call[t].cur].ledger

(* The receipt s that call k is to fill, has just filled or is repaying.        *)
Filling(k, s) ==
  /\ k.pc \in {"check", "search", "staged", "granted", "fill", "repay"} => ~s.held
  /\ k.pc = "unstage" /\ k.end = "open" => s.held /\ s.bytes = ResultBytes

Claims(t) == call[t].fill # NoReceipt => Filling(call[t], receipt[call[t].fill])

(* A receipt is filled by one call, and every allowance counts what is owed.    *)
Books ==
  /\ receipt \in [Receipts -> ReceiptType] /\ account \in [Accounts -> Int]
  /\ ended \subseteq Cursors /\ root \in BOOLEAN
  /\ \A c \in Cursors : cursor[c].ledger >= 0
  /\ \A t \in Threads : Staging(call[t]) /\ Covered(t) /\ Claims(t)
  /\ \A t, u \in Threads : call[t].fill = call[u].fill => t = u \/ call[t].fill = NoReceipt
  /\ Conserved

(* A change of an allowance by the bytes of one loan.                           *)
LEMMA ChargeIs ==
  ASSUME account \in [Accounts -> Int], NEW b \in Accounts, NEW n \in Int, Charge(b, n)
  PROVE  /\ account' \in [Accounts -> Int]
         /\ \A a \in Accounts : account'[a] = account[a] + Share(a, b, n)
  BY DEF Charge, Share

(* The sums are integers.                                                       *)
LEMMA LoansType ==
  ASSUME IInv, receipt \in [Receipts -> ReceiptType], NEW a \in Accounts
  PROVE  CursorLoans(a) \in Int /\ CallLoans(a) \in Nat /\ ReceiptLoans(a) \in Nat
<1>1. CursorLoans(a) \in Int
  <2> DEFINE f == [c \in Cursors |-> Share(a, cursor[c].working, cursor[c].ledger)]
  <2>1. \A c \in Cursors : f[c] \in Int
    BY DEF Share, IInv, CursorType
  <2>2. DOMAIN f = Cursors /\ CursorLoans(a) = SumFunction(f)
    BY DEF CursorLoans
  <2> HIDE DEF f
  <2> QED
    BY <2>1, <2>2, SumType, CursorAssumption DEF SumFunction
<1>2. CallLoans(a) \in Nat
  <2> DEFINE f == [t \in Threads |-> Share(a, call[t].to, call[t].granted)]
  <2>1. \A t \in Threads : f[t] \in Nat
    BY DEF Share, IInv, CallType
  <2>2. DOMAIN f = Threads /\ CallLoans(a) = SumFunction(f)
    BY DEF CallLoans
  <2> HIDE DEF f
  <2> QED
    BY <2>1, <2>2, SumNat, CursorAssumption DEF SumFunction
<1>3. ReceiptLoans(a) \in Nat
  <2> DEFINE f == [r \in Receipts |->
                     IF Owing(r) THEN Share(a, receipt[r].on, receipt[r].bytes) ELSE 0]
  <2>1. \A r \in Receipts : f[r] \in Nat
    BY DEF Share, ReceiptType
  <2>2. DOMAIN f = Receipts /\ ReceiptLoans(a) = SumFunction(f)
    BY DEF ReceiptLoans
  <2> HIDE DEF f
  <2> QED
    BY <2>1, <2>2, SumNat, CursorAssumption DEF SumFunction
<1> QED
  BY <1>1, <1>2, <1>3

(* One cursor, one call or one receipt changes.                                 *)
LEMMA CursorLoansChange ==
  ASSUME cursor \in [Cursors -> CursorType], cursor' \in [Cursors -> CursorType],
         NEW c \in Cursors, \A d \in Cursors : d # c => cursor'[d] = cursor[d],
         NEW a \in Accounts
  PROVE  CursorLoans(a)' = CursorLoans(a) - Share(a, cursor[c].working, cursor[c].ledger)
                                          + Share(a, cursor'[c].working, cursor'[c].ledger)
<1> DEFINE f == [d \in Cursors |-> Share(a, cursor[d].working, cursor[d].ledger)]
           g == [d \in Cursors |-> Share(a, cursor'[d].working, cursor'[d].ledger)]
<1>1. \A d \in Cursors : f[d] \in Int /\ g[d] \in Int
  BY DEF Share, CursorType
<1>2. \A d \in Cursors \ {c} : f[d] = g[d]
  OBVIOUS
<1>3. /\ f[c] = Share(a, cursor[c].working, cursor[c].ledger)
      /\ g[c] = Share(a, cursor'[c].working, cursor'[c].ledger)
  OBVIOUS
<1>4. DOMAIN f = Cursors /\ DOMAIN g = Cursors
  OBVIOUS
<1>5. CursorLoans(a) = SumFunction(f) /\ CursorLoans(a)' = SumFunction(g)
  BY DEF CursorLoans
<1> HIDE DEF f, g
<1>6. SumFunctionOnSet(g, Cursors) = SumFunctionOnSet(f, Cursors) - f[c] + g[c]
  BY <1>1, <1>2, SumChange, CursorAssumption
<1> QED
  BY <1>3, <1>4, <1>5, <1>6 DEF SumFunction

LEMMA CallLoansChange ==
  ASSUME call \in [Threads -> CallType], call' \in [Threads -> CallType],
         NEW t \in Threads, \A u \in Threads : u # t => call'[u] = call[u],
         NEW a \in Accounts
  PROVE  CallLoans(a)' = CallLoans(a) - Share(a, call[t].to, call[t].granted)
                                      + Share(a, call'[t].to, call'[t].granted)
<1> DEFINE f == [u \in Threads |-> Share(a, call[u].to, call[u].granted)]
           g == [u \in Threads |-> Share(a, call'[u].to, call'[u].granted)]
<1>1. \A u \in Threads : f[u] \in Int /\ g[u] \in Int
  BY DEF Share, CallType
<1>2. \A u \in Threads \ {t} : f[u] = g[u]
  OBVIOUS
<1>3. /\ f[t] = Share(a, call[t].to, call[t].granted)
      /\ g[t] = Share(a, call'[t].to, call'[t].granted)
  OBVIOUS
<1>4. DOMAIN f = Threads /\ DOMAIN g = Threads
  OBVIOUS
<1>5. CallLoans(a) = SumFunction(f) /\ CallLoans(a)' = SumFunction(g)
  BY DEF CallLoans
<1> HIDE DEF f, g
<1>6. SumFunctionOnSet(g, Threads) = SumFunctionOnSet(f, Threads) - f[t] + g[t]
  BY <1>1, <1>2, SumChange, CursorAssumption
<1> QED
  BY <1>3, <1>4, <1>5, <1>6 DEF SumFunction

LEMMA ReceiptLoansChange ==
  ASSUME receipt \in [Receipts -> ReceiptType], receipt' \in [Receipts -> ReceiptType],
         NEW r \in Receipts,
         \A s \in Receipts : s # r => receipt'[s] = receipt[s] /\ (Owing(s)' <=> Owing(s)),
         NEW a \in Accounts
  PROVE  ReceiptLoans(a)' =
           ReceiptLoans(a)
             - (IF Owing(r) THEN Share(a, receipt[r].on, receipt[r].bytes) ELSE 0)
             + (IF Owing(r)' THEN Share(a, receipt'[r].on, receipt'[r].bytes) ELSE 0)
<1> DEFINE f == [s \in Receipts |->
                   IF Owing(s) THEN Share(a, receipt[s].on, receipt[s].bytes) ELSE 0]
           g == [s \in Receipts |->
                   IF Owing(s)' THEN Share(a, receipt'[s].on, receipt'[s].bytes) ELSE 0]
<1>1. \A s \in Receipts : f[s] \in Int /\ g[s] \in Int
  BY DEF Share, ReceiptType
<1>2. \A s \in Receipts \ {r} : f[s] = g[s]
  OBVIOUS
<1>3. /\ f[r] = IF Owing(r) THEN Share(a, receipt[r].on, receipt[r].bytes) ELSE 0
      /\ g[r] = IF Owing(r)' THEN Share(a, receipt'[r].on, receipt'[r].bytes) ELSE 0
  OBVIOUS
<1>4. DOMAIN f = Receipts /\ DOMAIN g = Receipts
  OBVIOUS
<1>5. ReceiptLoans(a) = SumFunction(f) /\ ReceiptLoans(a)' = SumFunction(g)
  BY DEF ReceiptLoans
<1> HIDE DEF f, g
<1>6. SumFunctionOnSet(g, Receipts) = SumFunctionOnSet(f, Receipts) - f[r] + g[r]
  BY <1>1, <1>2, SumChange, CursorAssumption
<1> QED
  BY <1>3, <1>4, <1>5, <1>6 DEF SumFunction

(* No receipt changes and no refund begins or ends.                             *)
LEMMA ReceiptLoansSame ==
  ASSUME UNCHANGED receipt, NEW t \in Threads, \A u \in Threads : u # t => call'[u] = call[u],
         call[t].pc # "repay", call'[t].pc # "repay", NEW a \in Accounts
  PROVE  ReceiptLoans(a)' = ReceiptLoans(a)
<1>1. \A s \in Receipts : Owing(s)' <=> Owing(s)
  BY DEF Owing, At
<1>2. [s \in Receipts |-> IF Owing(s)' THEN Share(a, receipt[s].on, receipt[s].bytes) ELSE 0]
    = [s \in Receipts |-> IF Owing(s) THEN Share(a, receipt[s].on, receipt[s].bytes) ELSE 0]
  BY <1>1
<1> QED
  BY <1>2 DEF ReceiptLoans

--------------------------------------------------------------------------------
(* All of Books but the sums, for a step of call t that may change cursor c and *)
(* the receipt that it fills.                                                   *)
LEMMA FrameStep ==
  ASSUME IInv, Books, NEW t \in Threads, NEW c \in Cursors,
         NEW r \in CallType, NEW q \in CursorType,
         Go(t, r), cursor' = [cursor EXCEPT ![c] = q],
         call[t].cur = c \/ \A u \in Threads : call[u].cur # c,
         receipt' \in [Receipts -> ReceiptType],
         \A u \in Threads \ {t} : call[u].fill # NoReceipt =>
            receipt'[call[u].fill] = receipt[call[u].fill],
         UNCHANGED root, ended' \subseteq Cursors, account' \in [Accounts -> Int],
         q.ledger >= 0, Staging(r),
         r.cur # NoCursor => r.cur = c /\ r.staged <= q.ledger,
         r.fill # NoReceipt => /\ Filling(r, receipt'[r.fill])
                               /\ \A u \in Threads \ {t} : call[u].fill # r.fill,
         Conserved'
  PROVE  Books'
<1> c # NoCursor
  BY CursorAssumption
<1>1. call'[t] = r /\ \A u \in Threads : u # t => call'[u] = call[u] /\ call[u].cur # c
  BY DEF Go, IInv
<1>2. cursor'[c] = q /\ \A d \in Cursors : d # c => cursor'[d] = cursor[d]
  BY DEF IInv
<1>3. \A d \in Cursors : cursor'[d].ledger >= 0
  BY <1>2 DEF Books
<1>4. ASSUME NEW u \in Threads
      PROVE  Staging(call'[u]) /\ Covered(u)' /\ Claims(u)'
  <2>1. CASE u = t
    <3>1. Covered(t)'
      BY <1>1, <1>2 DEF Covered
    <3>2. Claims(t)'
      BY <1>1 DEF Claims
    <3> QED
      BY <2>1, <1>1, <3>1, <3>2
  <2>2. CASE u # t
    <3>1. call'[u] = call[u] /\ call[u].cur # c /\ call[u].cur \in Cursors \cup {NoCursor}
      BY <2>2, <1>1 DEF CallType, IInv
    <3>2. Staging(call[u]) /\ Covered(u) /\ Claims(u)
      BY DEF Books
    <3>3. Covered(u)'
      BY <3>1, <3>2, <1>2 DEF Covered
    <3>4. Claims(u)'
      BY <2>2, <3>1, <3>2 DEF Claims
    <3> QED
      BY <3>1, <3>2, <3>3, <3>4
  <2> QED
    BY <2>1, <2>2
<1>5. \A u, v \in Threads : call'[u].fill = call'[v].fill => u = v \/ call'[u].fill = NoReceipt
  BY <1>1 DEF Books
<1>6. root' \in BOOLEAN
  BY DEF Books
<1> QED
  BY <1>3, <1>4, <1>5, <1>6 DEF Books

(* A call that has begun fills a receipt that no other call does.               *)
LEMMA OwnFill ==
  ASSUME Books, NEW t \in Threads, NEW f, f = call[t].fill, f # NoReceipt
  PROVE  \A u \in Threads \ {t} : call[u].fill # f
  BY DEF Books

(* A step of a call inside its cursor that leaves the receipts alone: what the  *)
(* allowances count changes by what the two ledgers change.                     *)
LEMMA LedgerStep ==
  ASSUME IInv, IInv', Books, NEW t \in Threads, call[t].pc \notin {"idle", "repay"},
         NEW r \in CallType, NEW q \in CursorType, Go(t, r), SetCur(t, q),
         UNCHANGED <<receipt, paid, root>>, ended' \subseteq Cursors,
         r.pc # "repay", q.ledger >= 0, Staging(r),
         r.cur # NoCursor => r.cur = call[t].cur /\ r.staged <= q.ledger,
         r.fill # NoReceipt => r.fill = call[t].fill /\ Filling(r, receipt[r.fill]),
         account' \in [Accounts -> Int],
         \A a \in Accounts :
           account'[a] = account[a]
             + (Share(a, q.working, q.ledger) - Share(a, Cur(t).working, Cur(t).ledger))
             + (Share(a, r.to, r.granted) - Share(a, call[t].to, call[t].granted))
  PROVE  Books'
<1> DEFINE c == call[t].cur
<1>1. c \in Cursors /\ c # NoCursor
  BY Entered, CursorAssumption
<1>2. /\ call \in [Threads -> CallType] /\ call' \in [Threads -> CallType]
      /\ cursor \in [Cursors -> CursorType] /\ cursor' \in [Cursors -> CursorType]
  BY DEF IInv
<1>3. call'[t] = r /\ \A u \in Threads : u # t => call'[u] = call[u] /\ call[u].cur # c
  BY <1>1 DEF Go, IInv
<1>4. cursor'[c] = q /\ \A d \in Cursors : d # c => cursor'[d] = cursor[d]
  BY <1>1 DEF SetCur, IInv
<1> HIDE DEF c
<1>8. ASSUME NEW a \in Accounts
      PROVE  account'[a] =
               Share(a, Program, paid') + CursorLoans(a)' + CallLoans(a)' + ReceiptLoans(a)'
  <2>1. CursorLoans(a)' = CursorLoans(a) - Share(a, cursor[c].working, cursor[c].ledger)
                                         + Share(a, q.working, q.ledger)
    BY <1>1, <1>2, <1>4, CursorLoansChange
  <2>2. CallLoans(a)' = CallLoans(a) - Share(a, call[t].to, call[t].granted)
                                     + Share(a, r.to, r.granted)
    BY <1>2, <1>3, CallLoansChange
  <2>3. ReceiptLoans(a)' = ReceiptLoans(a)
    BY <1>3, ReceiptLoansSame
  <2>4. account[a] = Share(a, Program, paid) + CursorLoans(a) + CallLoans(a) + ReceiptLoans(a)
    BY DEF Books, Conserved
  <2>5. CursorLoans(a) \in Int /\ CallLoans(a) \in Int /\ ReceiptLoans(a) \in Int
    BY LoansType DEF Books
  <2>6. /\ Share(a, cursor[c].working, cursor[c].ledger) \in Int
        /\ Share(a, q.working, q.ledger) \in Int /\ Share(a, Program, paid) \in Int
        /\ Share(a, r.to, r.granted) \in Int
        /\ Share(a, call[t].to, call[t].granted) \in Int
    BY <1>1, <1>2, CursorAssumption DEF Share, CursorType, CallType, IInv, LeaseInv
  <2>7. Cur(t) = cursor[c]
    BY DEF Cur, c
  <2>8. account'[a] = account[a]
             + (Share(a, q.working, q.ledger) - Share(a, cursor[c].working, cursor[c].ledger))
             + (Share(a, r.to, r.granted) - Share(a, call[t].to, call[t].granted))
    BY <2>7
  <2> QED
    BY <2>1, <2>2, <2>3, <2>4, <2>5, <2>6, <2>8
<1>9. Conserved'
  BY <1>8 DEF Conserved
<1>10. /\ cursor' = [cursor EXCEPT ![c] = q] /\ call[t].cur = c
       /\ receipt' \in [Receipts -> ReceiptType]
       /\ \A u \in Threads \ {t} : call[u].fill # NoReceipt =>
             receipt'[call[u].fill] = receipt[call[u].fill]
  BY DEF SetCur, Books, c
<1>11. r.cur # NoCursor => r.cur = c /\ r.staged <= q.ledger
  BY DEF c
<1>12. r.fill # NoReceipt => /\ Filling(r, receipt'[r.fill])
                             /\ \A u \in Threads \ {t} : call[u].fill # r.fill
  BY OwnFill
<1> QED
  BY <1>1, <1>9, <1>10, <1>11, <1>12, FrameStep

(* LedgerStep when the cursor keeps its ledger and no allowance is called.      *)
LEMMA UnpaidStep ==
  ASSUME IInv, IInv', Books, NEW t \in Threads, call[t].pc \notin {"idle", "repay"},
         NEW r \in CallType, NEW q \in CursorType, Go(t, r), SetCur(t, q),
         UNCHANGED <<receipt, paid, root, account>>, ended' \subseteq Cursors,
         r.pc # "repay", Staging(r), r.granted = call[t].granted,
         q.ledger = Cur(t).ledger, q.working = Cur(t).working \/ q.ledger = 0,
         r.to = call[t].to \/ r.granted = 0,
         r.cur # NoCursor => r.cur = call[t].cur /\ r.staged = call[t].staged,
         r.fill # NoReceipt => r.fill = call[t].fill /\ Filling(r, receipt[r.fill])
  PROVE  Books'
<1>1. call[t].cur \in Cursors /\ call[t].cur # NoCursor /\ Cur(t) \in CursorType
  BY Entered, CursorAssumption
<1>2. Cur(t).ledger >= 0 /\ call[t].staged <= Cur(t).ledger
  BY <1>1 DEF Books, Covered, Cur
<1>3. account' \in [Accounts -> Int] /\ \A a \in Accounts : account[a] \in Int
  BY DEF Books
<1>4. \A a \in Accounts :
        /\ Share(a, q.working, q.ledger) = Share(a, Cur(t).working, Cur(t).ledger)
        /\ Share(a, r.to, r.granted) = Share(a, call[t].to, call[t].granted)
        /\ Share(a, q.working, q.ledger) \in Int /\ Share(a, r.to, r.granted) \in Int
  BY DEF Share, CursorType, CallType
<1>5. \A a \in Accounts :
        account'[a] = account[a]
          + (Share(a, q.working, q.ledger) - Share(a, Cur(t).working, Cur(t).ledger))
          + (Share(a, r.to, r.granted) - Share(a, call[t].to, call[t].granted))
  BY <1>3, <1>4
<1>6. q.ledger >= 0 /\ (r.cur # NoCursor => r.cur = call[t].cur /\ r.staged <= q.ledger)
  BY <1>2
<1> QED
  BY <1>3, <1>5, <1>6, LedgerStep

(* What the two invariants say of a call inside its cursor.                     *)
LEMMA Booked ==
  ASSUME IInv, Books, NEW t \in Threads, call[t].pc \notin {"idle", "repay"}
  PROVE  /\ call[t] \in CallType /\ Cur(t) \in CursorType /\ call[t].cur \in Cursors
         /\ CallInv(t, call[t], Cur(t), live) /\ Staging(call[t])
         /\ call[t].fill # NoReceipt => Filling(call[t], receipt[call[t].fill])
         /\ call[t].staged <= Cur(t).ledger /\ Cur(t).ledger >= 0
         /\ Cur(t) = cursor[call[t].cur] /\ live \subseteq Cursors
<1>1. /\ call[t] \in CallType /\ Cur(t) \in CursorType /\ call[t].cur \in Cursors
      /\ CallInv(t, call[t], Cur(t), live) /\ call[t].cur # NoCursor
  BY Entered, CursorAssumption
<1>2. Staging(call[t]) /\ Covered(t) /\ Claims(t) /\ Cur(t).ledger >= 0
  BY <1>1 DEF Books, Cur
<1> QED
  BY <1>1, <1>2 DEF Covered, Claims, Cur, IInv, LeaseInv

(* The steps that call no allowance.                                            *)

LEMMA EnterStorageBooks ==
  ASSUME IInv, IInv', Books, NEW t \in Threads, EnterStorage(t)
  PROVE  Books'
<1> DEFINE k == call[t]
           q == Cur(t)
           r == [k EXCEPT !.pc = "build"]
           p == [q EXCEPT !.working = k.to]
<1>1. k.pc = "enter"
  BY DEF EnterStorage, At
<1>2. /\ k \in CallType /\ q \in CursorType /\ k.cur \in Cursors
      /\ CallInv(t, k, q, live) /\ Staging(k)
      /\ k.fill # NoReceipt => Filling(k, receipt[k.fill])
      /\ q = cursor[k.cur] /\ live \subseteq Cursors
  BY <1>1, Booked
<1>3. r \in CallType /\ p \in CursorType
  BY <1>2, CursorAssumption DEF CallType, Pcs, CursorType, Statuses, NewCall
<1>4. r.pc # "repay" /\ Staging(r) /\ r.granted = k.granted
  BY <1>1, <1>2 DEF Staging, NewCall, CallType
<1>5. p.ledger = q.ledger /\ (p.working = q.working \/ p.ledger = 0)
  BY <1>1, <1>2 DEF CursorType, CallInv, Settled
<1>6. /\ r.to = k.to \/ r.granted = 0
      /\ r.cur # NoCursor => r.cur = k.cur /\ r.staged = k.staged
      /\ r.fill # NoReceipt => r.fill = k.fill /\ Filling(r, receipt[r.fill])
  BY <1>1, <1>2 DEF CallType, NewCall, Filling
<1>7. /\ Go(t, r) /\ SetCur(t, p) /\ UNCHANGED <<receipt, paid, root, account>>
      /\ ended' \subseteq Cursors
  BY <1>1, <1>2 DEF EnterStorage, Go, SetCur, Cur, leaseVars, Books, IInv, Lease!Grant
<1> HIDE DEF r, p
<1> QED
  BY <1>1, <1>2, <1>3, <1>4, <1>5, <1>6, <1>7, UnpaidStep

LEMMA EnterRejectedBooks ==
  ASSUME IInv, IInv', Books, NEW t \in Threads, EnterRejected(t)
  PROVE  Books'
<1> DEFINE k == call[t]
           q == Cur(t)
           r == NewCall
<1>1. k.pc = "enter"
  BY DEF EnterRejected, At
<1>2. /\ k \in CallType /\ q \in CursorType /\ k.cur \in Cursors
      /\ CallInv(t, k, q, live) /\ Staging(k)
      /\ k.fill # NoReceipt => Filling(k, receipt[k.fill])
      /\ q = cursor[k.cur] /\ live \subseteq Cursors
  BY <1>1, Booked
<1>3. r \in CallType /\ q \in CursorType
  BY <1>2, CursorAssumption DEF CallType, Pcs, CursorType, Statuses, NewCall
<1>4. r.pc # "repay" /\ Staging(r) /\ r.granted = k.granted
  BY <1>1, <1>2 DEF Staging, NewCall, CallType
<1>5. q.ledger = q.ledger /\ (q.working = q.working \/ q.ledger = 0)
  BY <1>1, <1>2 DEF CursorType
<1>6. /\ r.to = k.to \/ r.granted = 0
      /\ r.cur # NoCursor => r.cur = k.cur /\ r.staged = k.staged
      /\ r.fill # NoReceipt => r.fill = k.fill /\ Filling(r, receipt[r.fill])
  BY <1>1, <1>2 DEF CallType, NewCall, Filling
<1>7. /\ Go(t, r) /\ SetCur(t, q) /\ UNCHANGED <<receipt, paid, root, account>>
      /\ ended' \subseteq Cursors
  BY <1>1, <1>2 DEF EnterRejected, Go, SetCur, Cur, leaseVars, Books, IInv
<1> HIDE DEF r
<1> QED
  BY <1>1, <1>2, <1>3, <1>4, <1>5, <1>6, <1>7, UnpaidStep

LEMMA AttachBooks ==
  ASSUME IInv, IInv', Books, NEW t \in Threads, Attach(t)
  PROVE  Books'
<1> DEFINE k == call[t]
           q == Cur(t)
           r == NewCall
           p == [q EXCEPT !.status = "open"]
<1>1. k.pc = "build"
  BY DEF Attach, At
<1>2. /\ k \in CallType /\ q \in CursorType /\ k.cur \in Cursors
      /\ CallInv(t, k, q, live) /\ Staging(k)
      /\ k.fill # NoReceipt => Filling(k, receipt[k.fill])
      /\ q = cursor[k.cur] /\ live \subseteq Cursors
  BY <1>1, Booked
<1>3. r \in CallType /\ p \in CursorType
  BY <1>2, CursorAssumption DEF CallType, Pcs, CursorType, Statuses, NewCall
<1>4. r.pc # "repay" /\ Staging(r) /\ r.granted = k.granted
  BY <1>1, <1>2 DEF Staging, NewCall, CallType
<1>5. p.ledger = q.ledger /\ (p.working = q.working \/ p.ledger = 0)
  BY <1>1, <1>2 DEF CursorType
<1>6. /\ r.to = k.to \/ r.granted = 0
      /\ r.cur # NoCursor => r.cur = k.cur /\ r.staged = k.staged
      /\ r.fill # NoReceipt => r.fill = k.fill /\ Filling(r, receipt[r.fill])
  BY <1>1, <1>2 DEF CallType, NewCall, Filling
<1>7. /\ Go(t, r) /\ SetCur(t, p) /\ UNCHANGED <<receipt, paid, root, account>>
      /\ ended' \subseteq Cursors
  BY <1>1, <1>2 DEF Attach, Go, SetCur, Cur, leaseVars, Books, IInv
<1> HIDE DEF r, p
<1> QED
  BY <1>1, <1>2, <1>3, <1>4, <1>5, <1>6, <1>7, UnpaidStep

LEMMA BuildFailsBooks ==
  ASSUME IInv, IInv', Books, NEW t \in Threads, BuildFails(t)
  PROVE  Books'
<1> DEFINE k == call[t]
           q == Cur(t)
           r == [k EXCEPT !.pc = "close"]
<1>1. k.pc = "build"
  BY DEF BuildFails, At
<1>2. /\ k \in CallType /\ q \in CursorType /\ k.cur \in Cursors
      /\ CallInv(t, k, q, live) /\ Staging(k)
      /\ k.fill # NoReceipt => Filling(k, receipt[k.fill])
      /\ q = cursor[k.cur] /\ live \subseteq Cursors
  BY <1>1, Booked
<1>3. r \in CallType /\ q \in CursorType
  BY <1>2, CursorAssumption DEF CallType, Pcs, CursorType, Statuses, NewCall
<1>4. r.pc # "repay" /\ Staging(r) /\ r.granted = k.granted
  BY <1>1, <1>2 DEF Staging, NewCall, CallType
<1>5. q.ledger = q.ledger /\ (q.working = q.working \/ q.ledger = 0)
  BY <1>1, <1>2 DEF CursorType
<1>6. /\ r.to = k.to \/ r.granted = 0
      /\ r.cur # NoCursor => r.cur = k.cur /\ r.staged = k.staged
      /\ r.fill # NoReceipt => r.fill = k.fill /\ Filling(r, receipt[r.fill])
  BY <1>1, <1>2 DEF CallType, NewCall, Filling
<1>7. /\ Go(t, r) /\ SetCur(t, q) /\ UNCHANGED <<receipt, paid, root, account>>
      /\ ended' \subseteq Cursors
  BY <1>1, <1>2 DEF BuildFails, Go, SetCur, Cur, leaseVars, Books, IInv
<1> HIDE DEF r
<1> QED
  BY <1>1, <1>2, <1>3, <1>4, <1>5, <1>6, <1>7, UnpaidStep

LEMMA ExhaustedBooks ==
  ASSUME IInv, IInv', Books, NEW t \in Threads, Exhausted(t)
  PROVE  Books'
<1> DEFINE k == call[t]
           q == Cur(t)
           r == [k EXCEPT !.pc = "unstage", !.end = "ended"]
<1>1. k.pc = "search"
  BY DEF Exhausted, At
<1>2. /\ k \in CallType /\ q \in CursorType /\ k.cur \in Cursors
      /\ CallInv(t, k, q, live) /\ Staging(k)
      /\ k.fill # NoReceipt => Filling(k, receipt[k.fill])
      /\ q = cursor[k.cur] /\ live \subseteq Cursors
  BY <1>1, Booked
<1>3. r \in CallType /\ q \in CursorType
  BY <1>2, CursorAssumption DEF CallType, Pcs, CursorType, Statuses, NewCall
<1>4. r.pc # "repay" /\ Staging(r) /\ r.granted = k.granted
  BY <1>1, <1>2 DEF Staging, NewCall, CallType
<1>5. q.ledger = q.ledger /\ (q.working = q.working \/ q.ledger = 0)
  BY <1>1, <1>2 DEF CursorType
<1>6. /\ r.to = k.to \/ r.granted = 0
      /\ r.cur # NoCursor => r.cur = k.cur /\ r.staged = k.staged
      /\ r.fill # NoReceipt => r.fill = k.fill /\ Filling(r, receipt[r.fill])
  BY <1>1, <1>2 DEF CallType, NewCall, Filling
<1>7. /\ Go(t, r) /\ SetCur(t, q) /\ UNCHANGED <<receipt, paid, root, account>>
      /\ ended' \subseteq Cursors
  BY <1>1, <1>2 DEF Exhausted, Go, SetCur, Cur, leaseVars, Books, IInv
<1> HIDE DEF r
<1> QED
  BY <1>1, <1>2, <1>3, <1>4, <1>5, <1>6, <1>7, UnpaidStep

LEMMA FaultsBooks ==
  ASSUME IInv, IInv', Books, NEW t \in Threads, Faults(t)
  PROVE  Books'
<1> DEFINE k == call[t]
           q == Cur(t)
           r == [k EXCEPT !.pc = "unstage", !.end = "faulted"]
<1>1. k.pc \in {"search", "staged"}
  BY DEF Faults, At
<1>2. /\ k \in CallType /\ q \in CursorType /\ k.cur \in Cursors
      /\ CallInv(t, k, q, live) /\ Staging(k)
      /\ k.fill # NoReceipt => Filling(k, receipt[k.fill])
      /\ q = cursor[k.cur] /\ live \subseteq Cursors
  BY <1>1, Booked
<1>3. r \in CallType /\ q \in CursorType
  BY <1>2, CursorAssumption DEF CallType, Pcs, CursorType, Statuses, NewCall
<1>4. r.pc # "repay" /\ Staging(r) /\ r.granted = k.granted
  BY <1>1, <1>2 DEF Staging, NewCall, CallType
<1>5. q.ledger = q.ledger /\ (q.working = q.working \/ q.ledger = 0)
  BY <1>1, <1>2 DEF CursorType
<1>6. /\ r.to = k.to \/ r.granted = 0
      /\ r.cur # NoCursor => r.cur = k.cur /\ r.staged = k.staged
      /\ r.fill # NoReceipt => r.fill = k.fill /\ Filling(r, receipt[r.fill])
  BY <1>1, <1>2 DEF CallType, NewCall, Filling
<1>7. /\ Go(t, r) /\ SetCur(t, q) /\ UNCHANGED <<receipt, paid, root, account>>
      /\ ended' \subseteq Cursors
  BY <1>1, <1>2 DEF Faults, Go, SetCur, Cur, leaseVars, Books, IInv
<1> HIDE DEF r
<1> QED
  BY <1>1, <1>2, <1>3, <1>4, <1>5, <1>6, <1>7, UnpaidStep

LEMMA PublishBooks ==
  ASSUME IInv, IInv', Books, NEW t \in Threads, Publish(t)
  PROVE  Books'
<1> DEFINE k == call[t]
           q == Cur(t)
           r == [k EXCEPT !.pc = "unstage"]
<1>1. k.pc = "staged" /\ k.fill = NoReceipt
  BY DEF Publish, At, Retains
<1>2. /\ k \in CallType /\ q \in CursorType /\ k.cur \in Cursors
      /\ CallInv(t, k, q, live) /\ Staging(k)
      /\ k.fill # NoReceipt => Filling(k, receipt[k.fill])
      /\ q = cursor[k.cur] /\ live \subseteq Cursors
  BY <1>1, Booked
<1>3. r \in CallType /\ q \in CursorType
  BY <1>2, CursorAssumption DEF CallType, Pcs, CursorType, Statuses, NewCall
<1>4. r.pc # "repay" /\ Staging(r) /\ r.granted = k.granted
  BY <1>1, <1>2 DEF Staging, NewCall, CallType
<1>5. q.ledger = q.ledger /\ (q.working = q.working \/ q.ledger = 0)
  BY <1>1, <1>2 DEF CursorType
<1>6. /\ r.to = k.to \/ r.granted = 0
      /\ r.cur # NoCursor => r.cur = k.cur /\ r.staged = k.staged
      /\ r.fill # NoReceipt => r.fill = k.fill /\ Filling(r, receipt[r.fill])
  BY <1>1, <1>2 DEF CallType, NewCall, Filling
<1>7. /\ Go(t, r) /\ SetCur(t, q) /\ UNCHANGED <<receipt, paid, root, account>>
      /\ ended' \subseteq Cursors
  BY <1>1, <1>2 DEF Publish, Go, SetCur, Cur, leaseVars, Books, IInv
<1> HIDE DEF r
<1> QED
  BY <1>1, <1>2, <1>3, <1>4, <1>5, <1>6, <1>7, UnpaidStep

LEMMA RestoreBooks ==
  ASSUME IInv, IInv', Books, NEW t \in Threads, Restore(t)
  PROVE  Books'
<1> DEFINE k == call[t]
           q == Cur(t)
           r == [k EXCEPT !.pc = IF q.status = "open" /\ k.end = "faulted"
                                THEN "close" ELSE "exit"]
           p == [q EXCEPT !.tokens = {"original"}]
<1>1. k.pc = "restore"
  BY DEF Restore, At
<1>2. /\ k \in CallType /\ q \in CursorType /\ k.cur \in Cursors
      /\ CallInv(t, k, q, live) /\ Staging(k)
      /\ k.fill # NoReceipt => Filling(k, receipt[k.fill])
      /\ q = cursor[k.cur] /\ live \subseteq Cursors
  BY <1>1, Booked
<1>3. r \in CallType /\ p \in CursorType
  BY <1>2, CursorAssumption DEF CallType, Pcs, CursorType, Statuses, NewCall
<1>4. r.pc # "repay" /\ Staging(r) /\ r.granted = k.granted
  BY <1>1, <1>2 DEF Staging, NewCall, CallType
<1>5. p.ledger = q.ledger /\ (p.working = q.working \/ p.ledger = 0)
  BY <1>1, <1>2 DEF CursorType
<1>6. /\ r.to = k.to \/ r.granted = 0
      /\ r.cur # NoCursor => r.cur = k.cur /\ r.staged = k.staged
      /\ r.fill # NoReceipt => r.fill = k.fill /\ Filling(r, receipt[r.fill])
  BY <1>1, <1>2 DEF CallType, NewCall, Filling
<1>7. /\ Go(t, r) /\ SetCur(t, p) /\ UNCHANGED <<receipt, paid, root, account>>
      /\ ended' \subseteq Cursors
  BY <1>1, <1>2 DEF Restore, Go, SetCur, Cur, leaseVars, Books, IInv
<1> HIDE DEF r, p
<1> QED
  BY <1>1, <1>2, <1>3, <1>4, <1>5, <1>6, <1>7, UnpaidStep

LEMMA EndUseBooks ==
  ASSUME IInv, IInv', Books, NEW t \in Threads, EndUse(t)
  PROVE  Books'
<1> DEFINE k == call[t]
           q == Cur(t)
           r == [k EXCEPT !.pc = IF k.end = "ended" THEN "restore" ELSE "exit"]
<1>1. k.pc = "endUse"
  BY DEF EndUse, At
<1>2. /\ k \in CallType /\ q \in CursorType /\ k.cur \in Cursors
      /\ CallInv(t, k, q, live) /\ Staging(k)
      /\ k.fill # NoReceipt => Filling(k, receipt[k.fill])
      /\ q = cursor[k.cur] /\ live \subseteq Cursors
  BY <1>1, Booked
<1>3. r \in CallType /\ q \in CursorType
  BY <1>2, CursorAssumption DEF CallType, Pcs, CursorType, Statuses, NewCall
<1>4. r.pc # "repay" /\ Staging(r) /\ r.granted = k.granted
  BY <1>1, <1>2 DEF Staging, NewCall, CallType
<1>5. q.ledger = q.ledger /\ (q.working = q.working \/ q.ledger = 0)
  BY <1>1, <1>2 DEF CursorType
<1>6. /\ r.to = k.to \/ r.granted = 0
      /\ r.cur # NoCursor => r.cur = k.cur /\ r.staged = k.staged
      /\ r.fill # NoReceipt => r.fill = k.fill /\ Filling(r, receipt[r.fill])
  BY <1>1, <1>2 DEF CallType, NewCall, Filling
<1>7. /\ Go(t, r) /\ SetCur(t, q) /\ UNCHANGED <<receipt, paid, root, account>>
      /\ ended' \subseteq Cursors
  BY <1>1, <1>2 DEF EndUse, Go, SetCur, Cur, leaseVars, Books, IInv, Lease!End
<1> HIDE DEF r
<1> QED
  BY <1>1, <1>2, <1>3, <1>4, <1>5, <1>6, <1>7, UnpaidStep

LEMMA ExitBooks ==
  ASSUME IInv, IInv', Books, NEW t \in Threads, Exit(t)
  PROVE  Books'
<1> DEFINE k == call[t]
           q == Cur(t)
           r == NewCall
           p == [q EXCEPT !.active = NoThread]
<1>1. k.pc = "exit"
  BY DEF Exit, At
<1>2. /\ k \in CallType /\ q \in CursorType /\ k.cur \in Cursors
      /\ CallInv(t, k, q, live) /\ Staging(k)
      /\ k.fill # NoReceipt => Filling(k, receipt[k.fill])
      /\ q = cursor[k.cur] /\ live \subseteq Cursors
  BY <1>1, Booked
<1>3. r \in CallType /\ p \in CursorType
  BY <1>2, CursorAssumption DEF CallType, Pcs, CursorType, Statuses, NewCall
<1>4. r.pc # "repay" /\ Staging(r) /\ r.granted = k.granted
  BY <1>1, <1>2 DEF Staging, NewCall, CallType
<1>5. p.ledger = q.ledger /\ (p.working = q.working \/ p.ledger = 0)
  BY <1>1, <1>2 DEF CursorType
<1>6. /\ r.to = k.to \/ r.granted = 0
      /\ r.cur # NoCursor => r.cur = k.cur /\ r.staged = k.staged
      /\ r.fill # NoReceipt => r.fill = k.fill /\ Filling(r, receipt[r.fill])
  BY <1>1, <1>2 DEF CallType, NewCall, Filling
<1>7. /\ Go(t, r) /\ SetCur(t, p) /\ UNCHANGED <<receipt, paid, root, account>>
      /\ ended' \subseteq Cursors
  BY <1>1, <1>2 DEF Exit, Go, SetCur, Cur, leaseVars, Books, IInv
<1> HIDE DEF r, p
<1> QED
  BY <1>1, <1>2, <1>3, <1>4, <1>5, <1>6, <1>7, UnpaidStep

LEMMA CheckBooks ==
  ASSUME IInv, IInv', Books, NEW t \in Threads, Check(t)
  PROVE  Books'
<1> DEFINE k == call[t]
           q == Cur(t)
           b == [k EXCEPT !.pc = "search"]
           p == [q EXCEPT !.tokens = Borrowed(t)]
           e == [k EXCEPT !.pc = "exit"]
<1>1. k.pc = "check"
  BY DEF Check, At
<1>2. /\ k \in CallType /\ q \in CursorType /\ k.cur \in Cursors /\ Staging(k)
      /\ k.fill # NoReceipt => Filling(k, receipt[k.fill])
      /\ q = cursor[k.cur]
  BY <1>1, Booked
<1>3. b \in CallType /\ e \in CallType /\ p \in CursorType
  <2>1. Borrowed(t) \in SUBSET {"original", "advance"}
    BY DEF Borrowed
  <2> QED
    BY <1>2, <2>1 DEF CallType, Pcs, CursorType, Statuses
<1>4. /\ b.pc = "search" /\ e.pc = "exit" /\ Staging(b) /\ Staging(e)
      /\ b.granted = k.granted /\ e.granted = k.granted /\ b.to = k.to /\ e.to = k.to
      /\ b.cur = k.cur /\ b.staged = k.staged /\ e.cur = k.cur /\ e.staged = k.staged
  BY <1>1, <1>2 DEF Staging, CallType
<1>5. p.ledger = q.ledger /\ p.working = q.working
  BY <1>2 DEF CursorType
<1>6. /\ b.fill = k.fill /\ e.fill = k.fill
      /\ b.fill # NoReceipt => Filling(b, receipt[b.fill])
      /\ e.fill # NoReceipt => Filling(e, receipt[e.fill])
  BY <1>1, <1>2 DEF CallType, Filling
<1>7. UNCHANGED <<receipt, paid, root, account>> /\ ended' \subseteq Cursors /\ UNCHANGED leaseVars
  BY DEF Check, leaseVars, Books
<1>8. CASE Advances(k.cur)
  <2>1. Go(t, b) /\ SetCur(t, p)
    BY <1>8 DEF Check
  <2> HIDE DEF b, p
  <2> QED
    BY <1>1, <1>3, <1>4, <1>5, <1>6, <1>7, <2>1, UnpaidStep
<1>9. CASE ~Advances(k.cur)
  <2>1. Go(t, e) /\ SetCur(t, q)
    BY <1>2, <1>9 DEF Check, SetCur, IInv
  <2> HIDE DEF e
  <2> QED
    BY <1>1, <1>2, <1>3, <1>4, <1>6, <1>7, <2>1, UnpaidStep
<1> QED
  BY <1>8, <1>9

--------------------------------------------------------------------------------
(* The steps that reserve from an allowance or release to it.                   *)

LEMMA BuildScratchBooks ==
  ASSUME IInv, IInv', Books, NEW t \in Threads, BuildScratch(t)
  PROVE  Books'
<1> DEFINE k == call[t]
           q == Cur(t)
           p == [q EXCEPT !.ledger = ScratchBytes]
<1>1. k.pc = "build" /\ q.ledger = 0
  BY DEF BuildScratch, At
<1>2. /\ k \in CallType /\ q \in CursorType /\ k.cur \in Cursors /\ Staging(k)
      /\ k.fill # NoReceipt => Filling(k, receipt[k.fill])
      /\ k.staged <= q.ledger
  BY <1>1, Booked
<1>3. p \in CursorType /\ p.ledger = ScratchBytes /\ p.working = q.working
  BY <1>2, CursorAssumption DEF CursorType
<1>4. Go(t, k) /\ SetCur(t, p) /\ UNCHANGED <<receipt, paid, root>> /\ ended' \subseteq Cursors
  BY <1>2 DEF BuildScratch, Go, leaseVars, Books, IInv
<1>5. k.staged = 0
  BY <1>1, <1>2 DEF Staging
<1>6. Charge(q.working, ScratchBytes) /\ q.working \in Accounts /\ account \in [Accounts -> Int]
  BY <1>2 DEF BuildScratch, CursorType, Books
<1>7. /\ account' \in [Accounts -> Int]
      /\ \A a \in Accounts : account'[a] = account[a] + Share(a, q.working, ScratchBytes)
  BY <1>6, ChargeIs, CursorAssumption
<1>8. \A a \in Accounts :
        account'[a] = account[a]
          + (Share(a, p.working, p.ledger) - Share(a, q.working, q.ledger))
          + (Share(a, k.to, k.granted) - Share(a, k.to, k.granted))
  BY <1>1, <1>2, <1>3, <1>6, <1>7, CursorAssumption DEF Share, CallType
<1>9. p.ledger >= 0 /\ k.staged <= p.ledger /\ k.pc # "repay"
  BY <1>1, <1>3, <1>5, CursorAssumption
<1> HIDE DEF p
<1> QED
  BY <1>1, <1>2, <1>3, <1>4, <1>7, <1>8, <1>9, LedgerStep

LEMMA StageBooks ==
  ASSUME IInv, IInv', Books, NEW t \in Threads, Stage(t)
  PROVE  Books'
<1> DEFINE k == call[t]
           q == Cur(t)
           m == q.ledger + ResultBytes
           p == [q EXCEPT !.ledger = m]
           r == [k EXCEPT !.pc = "staged", !.staged = ResultBytes]
<1>1. k.pc = "search"
  BY DEF Stage, At
<1>2. /\ k \in CallType /\ q \in CursorType /\ k.cur \in Cursors /\ Staging(k)
      /\ k.fill # NoReceipt => Filling(k, receipt[k.fill])
      /\ q.ledger >= 0
  BY <1>1, Booked
<1>3. m \in Int /\ m >= ResultBytes /\ ResultBytes \in Nat
  BY <1>2, CursorAssumption DEF CursorType
<1>4. SetCur(t, p)
  BY DEF Stage, SetCur
<1>5. m = q.ledger + ResultBytes
  OBVIOUS
<1> HIDE DEF m
<1>6. p \in CursorType /\ p.ledger = m /\ p.working = q.working /\ r \in CallType
  BY <1>2, <1>3 DEF CursorType, CallType, Pcs
<1>7. /\ r.pc = "staged" /\ Staging(r) /\ r.to = k.to /\ r.granted = k.granted
      /\ r.cur = k.cur /\ r.staged = ResultBytes
      /\ r.fill # NoReceipt => r.fill = k.fill /\ Filling(r, receipt[r.fill])
  BY <1>1, <1>2 DEF CallType, Staging, Filling
<1>8. Go(t, r) /\ UNCHANGED <<receipt, paid, root>> /\ ended' \subseteq Cursors
  BY DEF Stage, Go, leaseVars, Books
<1>9. Charge(q.working, ResultBytes) /\ q.working \in Accounts /\ account \in [Accounts -> Int]
  BY <1>2 DEF Stage, CursorType, Books
<1>10. /\ account' \in [Accounts -> Int]
       /\ \A a \in Accounts : account'[a] = account[a] + Share(a, q.working, ResultBytes)
  BY <1>3, <1>9, ChargeIs
<1>11. \A a \in Accounts :
         account'[a] = account[a]
           + (Share(a, p.working, p.ledger) - Share(a, q.working, q.ledger))
           + (Share(a, r.to, r.granted) - Share(a, k.to, k.granted))
  BY <1>2, <1>3, <1>5, <1>6, <1>7, <1>9, <1>10 DEF Share, CallType, CursorType
<1>12. p.ledger >= 0 /\ r.staged <= p.ledger
  BY <1>3, <1>6, <1>7
<1> HIDE DEF p, r
<1> QED
  BY <1>1, <1>4, <1>6, <1>7, <1>8, <1>10, <1>11, <1>12, LedgerStep

LEMMA GrantBooks ==
  ASSUME IInv, IInv', Books, NEW t \in Threads, Grant(t)
  PROVE  Books'
<1> DEFINE k == call[t]
           q == Cur(t)
           r == [k EXCEPT !.pc = "granted", !.granted = k.staged]
<1>1. k.pc = "staged" /\ k.fill # NoReceipt
  BY DEF Grant, At, Retains
<1>2. /\ k \in CallType /\ q \in CursorType /\ k.cur \in Cursors /\ Staging(k)
      /\ k.fill # NoReceipt => Filling(k, receipt[k.fill])
      /\ q.ledger >= 0 /\ k.staged <= q.ledger /\ q = cursor[k.cur]
  BY <1>1, Booked
<1>3. k.staged = ResultBytes /\ k.granted = 0 /\ ResultBytes \in Nat
  BY <1>1, <1>2, CursorAssumption DEF Staging
<1>4. /\ r \in CallType /\ r.pc = "granted" /\ Staging(r) /\ r.to = k.to
      /\ r.granted = ResultBytes /\ r.cur = k.cur /\ r.staged = k.staged
      /\ r.fill # NoReceipt => r.fill = k.fill /\ Filling(r, receipt[r.fill])
  BY <1>1, <1>2, <1>3 DEF CallType, Pcs, Staging, Filling
<1>5. /\ Go(t, r) /\ SetCur(t, q) /\ UNCHANGED <<receipt, paid, root>>
      /\ ended' \subseteq Cursors
  BY <1>2 DEF Grant, Go, SetCur, leaseVars, Books, IInv
<1>6. Charge(k.to, ResultBytes) /\ k.to \in Accounts /\ account \in [Accounts -> Int]
  BY <1>2, <1>3 DEF Grant, CallType, Books
<1>7. /\ account' \in [Accounts -> Int]
      /\ \A a \in Accounts : account'[a] = account[a] + Share(a, k.to, ResultBytes)
  BY <1>3, <1>6, ChargeIs
<1>8. \A a \in Accounts :
        account'[a] = account[a]
          + (Share(a, q.working, q.ledger) - Share(a, q.working, q.ledger))
          + (Share(a, r.to, r.granted) - Share(a, k.to, k.granted))
  BY <1>2, <1>3, <1>4, <1>6, <1>7 DEF Share, CursorType
<1> HIDE DEF r
<1> QED
  BY <1>1, <1>2, <1>4, <1>5, <1>7, <1>8, LedgerStep

LEMMA UngrantBooks ==
  ASSUME IInv, IInv', Books, NEW t \in Threads, Ungrant(t)
  PROVE  Books'
<1> DEFINE k == call[t]
           q == Cur(t)
           r == [k EXCEPT !.pc = "unstage", !.granted = 0, !.end = "faulted"]
<1>1. k.pc = "granted"
  BY DEF Ungrant, At
<1>2. /\ k \in CallType /\ q \in CursorType /\ k.cur \in Cursors /\ Staging(k)
      /\ q.ledger >= 0 /\ k.staged <= q.ledger /\ q = cursor[k.cur]
  BY <1>1, Booked
<1>3. k.staged = ResultBytes /\ k.granted = ResultBytes /\ ResultBytes \in Nat
  BY <1>1, <1>2, CursorAssumption DEF Staging
<1>4. /\ r \in CallType /\ r.pc = "unstage" /\ Staging(r) /\ r.to = k.to
      /\ r.granted = 0 /\ r.cur = k.cur /\ r.staged = k.staged
      /\ r.fill # NoReceipt => r.fill = k.fill /\ Filling(r, receipt[r.fill])
  BY <1>1, <1>2, <1>3 DEF CallType, Pcs, Staging, Filling, Statuses
<1>5. /\ Go(t, r) /\ SetCur(t, q) /\ UNCHANGED <<receipt, paid, root>>
      /\ ended' \subseteq Cursors
  BY <1>2 DEF Ungrant, Go, SetCur, leaseVars, Books, IInv
<1>6. Charge(k.to, -ResultBytes) /\ k.to \in Accounts /\ account \in [Accounts -> Int]
  BY <1>2, <1>3 DEF Ungrant, CallType, Books
<1>7. /\ account' \in [Accounts -> Int]
      /\ \A a \in Accounts : account'[a] = account[a] + Share(a, k.to, -ResultBytes)
  BY <1>3, <1>6, ChargeIs
<1>8. \A a \in Accounts :
        account'[a] = account[a]
          + (Share(a, q.working, q.ledger) - Share(a, q.working, q.ledger))
          + (Share(a, r.to, r.granted) - Share(a, k.to, k.granted))
  BY <1>2, <1>3, <1>4, <1>6, <1>7 DEF Share, CursorType
<1> HIDE DEF r
<1> QED
  BY <1>1, <1>2, <1>4, <1>5, <1>7, <1>8, LedgerStep

(* ReleaseStaging, Unstage and Close: the working allowance takes n bytes back. *)
LEMMA ReleaseStep ==
  ASSUME IInv, IInv', Books, NEW t \in Threads, call[t].pc \notin {"idle", "repay"},
         NEW r \in CallType, NEW q \in CursorType, NEW n \in Nat, Go(t, r), SetCur(t, q),
         Charge(Cur(t).working, -n), q.working = Cur(t).working,
         n <= Cur(t).ledger, q.ledger = Cur(t).ledger - n,
         UNCHANGED <<receipt, paid, root>>, ended' \subseteq Cursors,
         r.pc # "repay", Staging(r), r.granted = call[t].granted, r.to = call[t].to,
         r.cur = call[t].cur, r.staged = 0,
         r.fill # NoReceipt => r.fill = call[t].fill /\ Filling(r, receipt[r.fill])
  PROVE  Books'
<1>1. Cur(t) \in CursorType /\ Cur(t).working \in Accounts /\ account \in [Accounts -> Int]
  BY Booked DEF CursorType, Books
<1>2. /\ account' \in [Accounts -> Int]
      /\ \A a \in Accounts : account'[a] = account[a] + Share(a, Cur(t).working, -n)
  BY <1>1, ChargeIs
<1>3. \A a \in Accounts :
        account'[a] = account[a]
          + (Share(a, q.working, q.ledger) - Share(a, Cur(t).working, Cur(t).ledger))
          + (Share(a, r.to, r.granted) - Share(a, call[t].to, call[t].granted))
  BY <1>1, <1>2 DEF Share, CursorType, CallType
<1>4. q.ledger >= 0 /\ r.staged <= q.ledger
  BY <1>1 DEF CursorType
<1> QED
  BY <1>2, <1>3, <1>4, LedgerStep

LEMMA ReleaseStagingBooks ==
  ASSUME IInv, IInv', Books, NEW t \in Threads, ReleaseStaging(t)
  PROVE  Books'
<1> DEFINE k == call[t]
           q == Cur(t)
           n == k.staged
           m == q.ledger - n
           p == [q EXCEPT !.ledger = m]
           r == [k EXCEPT !.pc = "fill", !.staged = 0]
<1>1. k.pc = "granted"
  BY DEF ReleaseStaging, At
<1>2. /\ k \in CallType /\ q \in CursorType /\ k.cur \in Cursors /\ Staging(k)
      /\ k.fill # NoReceipt => Filling(k, receipt[k.fill])
      /\ q.ledger >= 0 /\ k.staged <= q.ledger
  BY <1>1, Booked
<1>3. n \in Nat /\ n <= q.ledger /\ m \in Int /\ m = q.ledger - n
  BY <1>2 DEF CursorType, CallType
<1>4. SetCur(t, p) /\ Go(t, r) /\ Charge(q.working, -n)
  BY DEF ReleaseStaging, SetCur, Go
<1> HIDE DEF m, n
<1>5. p \in CursorType /\ p.ledger = m /\ p.working = q.working /\ r \in CallType
  BY <1>2, <1>3 DEF CursorType, CallType, Pcs
<1>6. /\ r.pc # "repay" /\ Staging(r) /\ r.to = k.to /\ r.granted = k.granted
      /\ r.cur = k.cur /\ r.staged = 0
      /\ r.fill # NoReceipt => r.fill = k.fill /\ Filling(r, receipt[r.fill])
  BY <1>1, <1>2 DEF CallType, Staging, Filling
<1>7. UNCHANGED <<receipt, paid, root>> /\ ended' \subseteq Cursors
  BY DEF ReleaseStaging, leaseVars, Books
<1> HIDE DEF p, r
<1> QED
  BY <1>1, <1>3, <1>4, <1>5, <1>6, <1>7, ReleaseStep

LEMMA UnstageBooks ==
  ASSUME IInv, IInv', Books, NEW t \in Threads, Unstage(t)
  PROVE  Books'
<1> DEFINE k == call[t]
           q == Cur(t)
           n == k.staged
           m == q.ledger - n
           p == [q EXCEPT !.ledger = m]
           r == [k EXCEPT !.staged = 0,
                         !.pc = IF k.end = "ended" THEN "close" ELSE "restore"]
<1>1. k.pc = "unstage"
  BY DEF Unstage, At
<1>2. /\ k \in CallType /\ q \in CursorType /\ k.cur \in Cursors /\ Staging(k)
      /\ k.fill # NoReceipt => Filling(k, receipt[k.fill])
      /\ q.ledger >= 0 /\ k.staged <= q.ledger
  BY <1>1, Booked
<1>3. n \in Nat /\ n <= q.ledger /\ m \in Int /\ m = q.ledger - n
  BY <1>2 DEF CursorType, CallType
<1>4. SetCur(t, p) /\ Go(t, r) /\ Charge(q.working, -n)
  BY DEF Unstage, SetCur, Go
<1> HIDE DEF m, n
<1>5. p \in CursorType /\ p.ledger = m /\ p.working = q.working /\ r \in CallType
  BY <1>2, <1>3 DEF CursorType, CallType, Pcs
<1>6. /\ r.pc # "repay" /\ Staging(r) /\ r.to = k.to /\ r.granted = k.granted
      /\ r.cur = k.cur /\ r.staged = 0
      /\ r.fill # NoReceipt => r.fill = k.fill /\ Filling(r, receipt[r.fill])
  BY <1>1, <1>2 DEF CallType, Staging, Filling
<1>7. UNCHANGED <<receipt, paid, root>> /\ ended' \subseteq Cursors
  BY DEF Unstage, leaseVars, Books
<1> HIDE DEF p, r
<1> QED
  BY <1>1, <1>3, <1>4, <1>5, <1>6, <1>7, ReleaseStep

LEMMA CloseBooks ==
  ASSUME IInv, IInv', Books, NEW t \in Threads, Close(t)
  PROVE  Books'
<1> DEFINE k == call[t]
           q == Cur(t)
           n == q.ledger
           m == q.ledger - n
           p == [q EXCEPT !.status = k.end, !.ledger = 0]
           r == [k EXCEPT !.pc = "endUse"]
<1>1. k.pc = "close"
  BY DEF Close, At
<1>2. /\ k \in CallType /\ q \in CursorType /\ k.cur \in Cursors /\ Staging(k)
      /\ k.fill # NoReceipt => Filling(k, receipt[k.fill])
      /\ q.ledger >= 0 /\ k.staged <= q.ledger
  BY <1>1, Booked
<1>3. n \in Nat /\ n <= q.ledger /\ m \in Int /\ m = q.ledger - n /\ m = 0
  BY <1>2 DEF CursorType, CallType
<1>4. SetCur(t, p) /\ Go(t, r) /\ Charge(q.working, -n)
  BY DEF Close, SetCur, Go
<1> HIDE DEF m, n
<1>5. p \in CursorType /\ p.ledger = m /\ p.working = q.working /\ r \in CallType
  BY <1>2, <1>3 DEF CursorType, CallType, Pcs
<1>6. /\ r.pc # "repay" /\ Staging(r) /\ r.to = k.to /\ r.granted = k.granted
      /\ r.cur = k.cur /\ r.staged = 0
      /\ r.fill # NoReceipt => r.fill = k.fill /\ Filling(r, receipt[r.fill])
  BY <1>1, <1>2 DEF CallType, Staging, Filling
<1>7. UNCHANGED <<receipt, paid, root>> /\ ended' \subseteq Cursors
  BY DEF Close, leaseVars, Books
<1> HIDE DEF p, r
<1> QED
  BY <1>1, <1>3, <1>4, <1>5, <1>6, <1>7, ReleaseStep

--------------------------------------------------------------------------------
(* The steps that hand a loan over to a receipt.                                *)

LEMMA PublishStep ==
  ASSUME IInv, IInv', Books, NEW t \in Threads, call[t].pc \in {"staged", "fill"},
         call[t].fill # NoReceipt, NEW r \in CallType, NEW q \in CursorType,
         Go(t, r), SetCur(t, q),
         receipt' = [receipt EXCEPT ![call[t].fill] =
                       [held |-> TRUE, bytes |-> ResultBytes, on |-> call[t].to]],
         UNCHANGED <<paid, root, account>>, ended' \subseteq Cursors,
         r.pc = "unstage", r.cur = call[t].cur, r.fill = call[t].fill, r.to = call[t].to,
         r.staged = 0, r.granted = 0, q.ledger >= 0,
         \A a \in Accounts :
           Share(a, Cur(t).working, Cur(t).ledger) + Share(a, call[t].to, call[t].granted)
             = Share(a, q.working, q.ledger) + Share(a, call[t].to, ResultBytes)
  PROVE  Books'
<1> DEFINE c == call[t].cur
<1>0. PICK f \in Receipts : f = call[t].fill
  BY DEF IInv, CallType
<1>1. /\ c \in Cursors /\ c # NoCursor /\ f \in Receipts /\ call[t] \in CallType
      /\ call[t].to \in Accounts /\ ~receipt[f].held /\ Cur(t) = cursor[c]
  BY <1>0, Booked, CursorAssumption DEF CallType, Filling
<1>2. /\ call \in [Threads -> CallType] /\ call' \in [Threads -> CallType]
      /\ cursor \in [Cursors -> CursorType] /\ cursor' \in [Cursors -> CursorType]
  BY DEF IInv
<1>3. call'[t] = r /\ \A u \in Threads : u # t => call'[u] = call[u]
  BY DEF Go, IInv
<1>4. /\ cursor' = [cursor EXCEPT ![c] = q]
      /\ cursor'[c] = q /\ \A d \in Cursors : d # c => cursor'[d] = cursor[d]
  BY <1>1, <1>2 DEF SetCur
<1>5. /\ receipt \in [Receipts -> ReceiptType]
      /\ receipt'[f] = [held |-> TRUE, bytes |-> ResultBytes, on |-> call[t].to]
      /\ \A s \in Receipts : s # f => receipt'[s] = receipt[s]
      /\ receipt' \in [Receipts -> ReceiptType]
  BY <1>0, <1>1, CursorAssumption DEF Books, ReceiptType
<1>6. \A u \in Threads \ {t} : call[u].fill # f
  BY <1>0, OwnFill
<1>7. ~Owing(f) /\ Owing(f)' /\ \A s \in Receipts : s # f => (Owing(s)' <=> Owing(s))
  BY <1>1, <1>3, <1>5, <1>6 DEF Owing, At
<1> HIDE DEF c
<1>8. ASSUME NEW a \in Accounts
      PROVE  account'[a] =
               Share(a, Program, paid') + CursorLoans(a)' + CallLoans(a)' + ReceiptLoans(a)'
  <2>1. CursorLoans(a)' = CursorLoans(a) - Share(a, cursor[c].working, cursor[c].ledger)
                                         + Share(a, q.working, q.ledger)
    BY <1>1, <1>2, <1>4, CursorLoansChange
  <2>2. CallLoans(a)' = CallLoans(a) - Share(a, call[t].to, call[t].granted)
                                     + Share(a, r.to, r.granted)
    BY <1>2, <1>3, CallLoansChange
  <2>3. ReceiptLoans(a)' = ReceiptLoans(a) + Share(a, call[t].to, ResultBytes)
    <3>1. ReceiptLoans(a) \in Int
      BY <1>5, LoansType
    <3>2. \A s \in Receipts : s # f => receipt'[s] = receipt[s] /\ (Owing(s)' <=> Owing(s))
      BY <1>5, <1>7
    <3>3. ReceiptLoans(a)' =
            ReceiptLoans(a)
              - (IF Owing(f) THEN Share(a, receipt[f].on, receipt[f].bytes) ELSE 0)
              + (IF Owing(f)' THEN Share(a, receipt'[f].on, receipt'[f].bytes) ELSE 0)
      <4>1. receipt \in [Receipts -> ReceiptType] /\ receipt' \in [Receipts -> ReceiptType]
        BY <1>5
      <4> QED
        BY <1>1, <4>1, <3>2, ReceiptLoansChange
    <3>4. Share(a, receipt'[f].on, receipt'[f].bytes) = Share(a, call[t].to, ResultBytes)
      BY <1>5
    <3>5. Share(a, call[t].to, ResultBytes) \in Int
      BY CursorAssumption DEF Share
    <3> QED
      BY <1>7, <3>1, <3>3, <3>4, <3>5
  <2>4. account[a] = Share(a, Program, paid) + CursorLoans(a) + CallLoans(a) + ReceiptLoans(a)
    BY DEF Books, Conserved
  <2>5. CursorLoans(a) \in Int /\ CallLoans(a) \in Int /\ ReceiptLoans(a) \in Int
    BY <1>5, LoansType
  <2>6. /\ Share(a, cursor[c].working, cursor[c].ledger) \in Int
        /\ Share(a, q.working, q.ledger) \in Int /\ Share(a, Program, paid) \in Int
        /\ Share(a, r.to, r.granted) = 0 /\ Share(a, call[t].to, ResultBytes) \in Int
        /\ Share(a, call[t].to, call[t].granted) \in Int
    BY <1>1, <1>2, CursorAssumption DEF Share, CursorType, CallType, IInv, LeaseInv
  <2>7. Share(a, cursor[c].working, cursor[c].ledger) + Share(a, call[t].to, call[t].granted)
          = Share(a, q.working, q.ledger) + Share(a, call[t].to, ResultBytes)
    BY <1>1
  <2> QED
    BY <2>1, <2>2, <2>3, <2>4, <2>5, <2>6, <2>7
<1>9. Conserved'
  BY <1>8 DEF Conserved
<1>10. Staging(r) /\ Filling(r, receipt'[f])
  BY <1>5 DEF Staging, Filling
<1>11. account' \in [Accounts -> Int]
  BY DEF Books
<1>12. \A u \in Threads \ {t} : call[u].fill # NoReceipt =>
          receipt'[call[u].fill] = receipt[call[u].fill]
  BY <1>2, <1>5, <1>6 DEF CallType
<1>13. call[t].cur = c /\ r.cur = c /\ r.fill = f
  BY <1>0 DEF c
<1> QED
  BY <1>1, <1>4, <1>5, <1>6, <1>9, <1>10, <1>11, <1>12, <1>13, FrameStep

LEMMA TransferBooks ==
  ASSUME IInv, IInv', Books, NEW t \in Threads, Transfer(t)
  PROVE  Books'
<1> DEFINE k == call[t]
           q == Cur(t)
           m == q.ledger - k.staged
           p == [q EXCEPT !.ledger = m]
           r == [k EXCEPT !.pc = "unstage", !.staged = 0]
<1>1. k.pc = "staged" /\ k.fill # NoReceipt /\ k.to = q.working
  BY DEF Transfer, At, Retains
<1>2. /\ k \in CallType /\ q \in CursorType /\ Staging(k) /\ k.staged <= q.ledger
  BY <1>1, Booked
<1>3. k.staged = ResultBytes /\ k.granted = 0 /\ ResultBytes \in Nat
  BY <1>1, <1>2, CursorAssumption DEF Staging
<1>4. m \in Int /\ m >= 0 /\ m = q.ledger - ResultBytes
  BY <1>2, <1>3 DEF CursorType
<1>5. SetCur(t, p) /\ Go(t, r)
  BY DEF Transfer, SetCur, Go
<1> HIDE DEF m
<1>6. /\ p \in CursorType /\ p.ledger = m /\ p.working = q.working /\ r \in CallType
      /\ r.pc = "unstage" /\ r.cur = k.cur /\ r.fill = k.fill /\ r.to = k.to
      /\ r.staged = 0 /\ r.granted = 0
  BY <1>2, <1>3, <1>4 DEF CursorType, CallType, Pcs
<1>7. /\ receipt' = [receipt EXCEPT ![k.fill] =
                       [held |-> TRUE, bytes |-> ResultBytes, on |-> k.to]]
      /\ UNCHANGED <<paid, root, account>> /\ ended' \subseteq Cursors
  BY <1>3 DEF Transfer, leaseVars, Books
<1>8. \A a \in Accounts :
        Share(a, q.working, q.ledger) + Share(a, k.to, k.granted)
          = Share(a, p.working, p.ledger) + Share(a, k.to, ResultBytes)
  BY <1>1, <1>2, <1>3, <1>4, <1>6 DEF Share, CursorType
<1>9. k.pc \in {"staged", "fill"} /\ p.ledger >= 0
  BY <1>1, <1>4, <1>6
<1> HIDE DEF p, r
<1> QED
  BY <1>1, <1>5, <1>6, <1>7, <1>8, <1>9, PublishStep

LEMMA FillBooks ==
  ASSUME IInv, IInv', Books, NEW t \in Threads, Fill(t)
  PROVE  Books'
<1> DEFINE k == call[t]
           q == Cur(t)
           r == [k EXCEPT !.pc = "unstage", !.granted = 0]
<1>1. k.pc = "fill"
  BY DEF Fill, At
<1>2. /\ k \in CallType /\ q \in CursorType /\ Staging(k) /\ q.ledger >= 0
      /\ q = cursor[k.cur] /\ k.cur \in Cursors
  BY <1>1, Booked
<1>3. k.staged = 0 /\ k.granted = ResultBytes /\ ResultBytes \in Nat /\ k.fill # NoReceipt
  BY <1>1, <1>2, CursorAssumption DEF Staging
<1>4. SetCur(t, q) /\ Go(t, r)
  BY <1>2 DEF Fill, SetCur, Go, IInv
<1>5. /\ r \in CallType
      /\ r.pc = "unstage" /\ r.cur = k.cur /\ r.fill = k.fill /\ r.to = k.to
      /\ r.staged = 0 /\ r.granted = 0
  BY <1>2, <1>3 DEF CallType, Pcs
<1>6. /\ receipt' = [receipt EXCEPT ![k.fill] =
                       [held |-> TRUE, bytes |-> ResultBytes, on |-> k.to]]
      /\ UNCHANGED <<paid, root, account>> /\ ended' \subseteq Cursors
  BY <1>3 DEF Fill, leaseVars, Books
<1>7. \A a \in Accounts :
        Share(a, q.working, q.ledger) + Share(a, k.to, k.granted)
          = Share(a, q.working, q.ledger) + Share(a, k.to, ResultBytes)
  BY <1>3
<1>8. k.pc \in {"staged", "fill"}
  BY <1>1
<1> HIDE DEF r
<1> QED
  BY <1>2, <1>3, <1>4, <1>5, <1>6, <1>7, <1>8, PublishStep

--------------------------------------------------------------------------------
(* A call that begins inside a cursor nobody is in.                             *)
LEMMA BeginStep ==
  ASSUME IInv, IInv', Books, NEW t \in Threads, NEW c \in Cursors,
         call[t].pc = "idle", \A u \in Threads : call[u].cur # c,
         NEW r \in CallType, NEW q \in CursorType,
         Go(t, r), cursor' = [cursor EXCEPT ![c] = q],
         q.working = cursor[c].working, q.ledger = cursor[c].ledger,
         UNCHANGED <<receipt, paid, root, account, ended>>,
         r.pc \in {"enter", "check", "close"}, r.cur = c, r.staged = 0, r.granted = 0,
         r.fill # NoReceipt => /\ ~receipt[r.fill].held
                               /\ \A u \in Threads : call[u].fill # r.fill
  PROVE  Books'
<1>1. /\ call \in [Threads -> CallType] /\ call' \in [Threads -> CallType]
      /\ cursor \in [Cursors -> CursorType] /\ cursor' \in [Cursors -> CursorType]
  BY DEF IInv
<1>2. call'[t] = r /\ \A u \in Threads : u # t => call'[u] = call[u]
  BY <1>1 DEF Go
<1>3. cursor'[c] = q /\ \A d \in Cursors : d # c => cursor'[d] = cursor[d]
  BY <1>1
<1>4. call[t].granted = 0 /\ Staging(r) /\ q.ledger >= 0
  BY DEF Books, Staging
<1>5. r.fill # NoReceipt => Filling(r, receipt[r.fill])
  BY DEF Filling
<1>6. ASSUME NEW a \in Accounts
      PROVE  account'[a] =
               Share(a, Program, paid') + CursorLoans(a)' + CallLoans(a)' + ReceiptLoans(a)'
  <2>1. CursorLoans(a)' = CursorLoans(a)
    <3>1. CursorLoans(a)' = CursorLoans(a) - Share(a, cursor[c].working, cursor[c].ledger)
                                           + Share(a, q.working, q.ledger)
      BY <1>1, <1>3, CursorLoansChange
    <3>2. CursorLoans(a) \in Int /\ Share(a, cursor[c].working, cursor[c].ledger) \in Int
      BY <1>1, LoansType DEF Books, Share, CursorType
    <3> QED
      BY <3>1, <3>2
  <2>2. CallLoans(a)' = CallLoans(a)
    <3>1. CallLoans(a)' = CallLoans(a) - Share(a, call[t].to, call[t].granted)
                                       + Share(a, r.to, r.granted)
      BY <1>1, <1>2, CallLoansChange
    <3>2. Share(a, call[t].to, call[t].granted) = 0 /\ Share(a, r.to, r.granted) = 0
      BY <1>4 DEF Share
    <3>3. CallLoans(a) \in Int
      BY LoansType DEF Books
    <3> QED
      BY <3>1, <3>2, <3>3
  <2>3. ReceiptLoans(a)' = ReceiptLoans(a)
    BY <1>2, ReceiptLoansSame
  <2> QED
    BY <2>1, <2>2, <2>3 DEF Books, Conserved
<1>7. Conserved'
  BY <1>6 DEF Conserved
<1>8. /\ receipt' \in [Receipts -> ReceiptType] /\ ended' \subseteq Cursors
      /\ account' \in [Accounts -> Int]
  BY DEF Books
<1> QED
  BY <1>4, <1>5, <1>7, <1>8, FrameStep

LEMMA ReadRootBooks ==
  ASSUME IInv, IInv', Books, NEW t \in Threads, NEW c \in Cursors, NEW a \in Accounts,
         ReadRoot(t, c, a)
  PROVE  Books'
<1> DEFINE q == cursor[c]
           r == [NewCall EXCEPT !.pc = "enter", !.cur = c, !.to = a, !.end = "unborn"]
<1>1. call[t].pc = "idle" /\ \A u \in Threads : call[u].cur # c
  BY DEF ReadRoot, At
<1>2. /\ r \in CallType /\ r.pc = "enter" /\ r.cur = c /\ r.staged = 0 /\ r.granted = 0
      /\ r.fill = NoReceipt
  BY CursorAssumption DEF CallType, Pcs, NewCall, Statuses
<1>3. Go(t, r) /\ cursor' = [cursor EXCEPT ![c] = q] /\ q \in CursorType
  BY DEF ReadRoot, IInv
<1>4. UNCHANGED <<receipt, paid, root, account, ended>>
  BY DEF ReadRoot, leaseVars
<1> HIDE DEF r
<1> QED
  BY <1>1, <1>2, <1>3, <1>4, BeginStep

LEMMA MoveNextBooks ==
  ASSUME IInv, IInv', Books, NEW t \in Threads, NEW c \in Cursors,
         NEW f \in Receipts \cup {NoReceipt}, NEW a \in Accounts, NEW own \in BOOLEAN,
         MoveNext(t, c, f, a, own)
  PROVE  Books'
<1> DEFINE q == [cursor[c] EXCEPT !.active = t]
           r == [NewCall EXCEPT !.pc = "check", !.cur = c, !.fill = f, !.to = a, !.own = own]
<1>1. call[t].pc = "idle" /\ \A u \in Threads : call[u].cur # c
  BY Free DEF MoveNext, Acquire, At
<1>2. /\ r \in CallType /\ r.pc = "check" /\ r.cur = c /\ r.staged = 0 /\ r.granted = 0
      /\ r.fill = f
  BY CursorAssumption DEF CallType, Pcs, NewCall, Statuses
<1>3. /\ q \in CursorType /\ q.working = cursor[c].working /\ q.ledger = cursor[c].ledger
      /\ Go(t, r) /\ cursor' = [cursor EXCEPT ![c] = q]
  BY DEF MoveNext, Acquire, IInv, CursorType
<1>4. UNCHANGED <<receipt, paid, root, account, ended>>
  BY DEF MoveNext, leaseVars
<1>5. f # NoReceipt => ~receipt[f].held /\ \A u \in Threads : call[u].fill # f
  BY DEF MoveNext, Unused
<1> HIDE DEF r, q
<1> QED
  BY <1>1, <1>2, <1>3, <1>4, <1>5, BeginStep

LEMMA DisposeBooks ==
  ASSUME IInv, IInv', Books, NEW t \in Threads, NEW c \in Cursors, Dispose(t, c)
  PROVE  Books'
<1> DEFINE q == [cursor[c] EXCEPT !.active = t]
           r == [NewCall EXCEPT !.pc = "close", !.cur = c, !.end = "disposed"]
<1>1. call[t].pc = "idle" /\ \A u \in Threads : call[u].cur # c
  BY Free DEF Dispose, Acquire, At
<1>2. /\ r \in CallType /\ r.pc = "close" /\ r.cur = c /\ r.staged = 0 /\ r.granted = 0
      /\ r.fill = NoReceipt
  BY CursorAssumption DEF CallType, Pcs, NewCall, Statuses
<1>3. /\ q \in CursorType /\ q.working = cursor[c].working /\ q.ledger = cursor[c].ledger
      /\ Go(t, r) /\ cursor' = [cursor EXCEPT ![c] = q]
  BY DEF Dispose, Acquire, IInv, CursorType
<1>4. UNCHANGED <<receipt, paid, root, account, ended>>
  BY DEF Dispose, leaseVars
<1> HIDE DEF r, q
<1> QED
  BY <1>1, <1>2, <1>3, <1>4, BeginStep

--------------------------------------------------------------------------------
(* Dispose of a receipt: a call outside every cursor, before and after.         *)
LEMMA ReceiptStep ==
  ASSUME IInv, IInv', Books, NEW t \in Threads, NEW f \in Receipts, NEW r \in CallType,
         Outside(call[t]), Outside(r), Go(t, r), Staging(r), r.granted = 0,
         receipt' = [receipt EXCEPT ![f].held = FALSE],
         UNCHANGED <<cursor, leaseVars, root>>, account' \in [Accounts -> Int],
         call[t].pc = "repay" => call[t].fill = f, r.fill \in {NoReceipt, f},
         \A u \in Threads \ {t} : call[u].fill # f,
         \A a \in Accounts :
           account'[a] = account[a]
             - (IF Owing(f) THEN Share(a, receipt[f].on, receipt[f].bytes) ELSE 0)
             + (IF r.pc = "repay" /\ r.fill = f
                THEN Share(a, receipt[f].on, receipt[f].bytes) ELSE 0)
  PROVE  Books'
<1>1. /\ call \in [Threads -> CallType] /\ call' \in [Threads -> CallType]
      /\ receipt \in [Receipts -> ReceiptType] /\ f # NoReceipt
  BY CursorAssumption DEF IInv, Books
<1>2. call'[t] = r /\ \A u \in Threads : u # t => call'[u] = call[u]
  BY <1>1 DEF Go
<1>3. /\ receipt' \in [Receipts -> ReceiptType] /\ ~receipt'[f].held
      /\ receipt'[f].on = receipt[f].on /\ receipt'[f].bytes = receipt[f].bytes
      /\ \A s \in Receipts : s # f => receipt'[s] = receipt[s]
  BY <1>1 DEF ReceiptType
<1>4. \A s \in Receipts : s # f => receipt'[s] = receipt[s] /\ (Owing(s)' <=> Owing(s))
  BY <1>1, <1>2, <1>3, CursorAssumption DEF Owing, At
<1>5. Owing(f)' <=> r.pc = "repay" /\ r.fill = f
  BY <1>2, <1>3 DEF Owing, At
<1>6. call[t].granted = 0
  BY DEF Outside, Books, Staging
<1>7. ASSUME NEW a \in Accounts
      PROVE  account'[a] =
               Share(a, Program, paid') + CursorLoans(a)' + CallLoans(a)' + ReceiptLoans(a)'
  <2>1. CursorLoans(a)' = CursorLoans(a) /\ Share(a, Program, paid') = Share(a, Program, paid)
    BY DEF CursorLoans, leaseVars
  <2>2. CallLoans(a)' = CallLoans(a)
    <3>1. CallLoans(a)' = CallLoans(a) - Share(a, call[t].to, call[t].granted)
                                       + Share(a, r.to, r.granted)
      BY <1>1, <1>2, CallLoansChange
    <3>2. Share(a, call[t].to, call[t].granted) = 0 /\ Share(a, r.to, r.granted) = 0
      BY <1>6 DEF Share
    <3>3. CallLoans(a) \in Int
      BY <1>1, LoansType
    <3> QED
      BY <3>1, <3>2, <3>3
  <2>3. ReceiptLoans(a)' =
          ReceiptLoans(a)
            - (IF Owing(f) THEN Share(a, receipt[f].on, receipt[f].bytes) ELSE 0)
            + (IF Owing(f)' THEN Share(a, receipt'[f].on, receipt'[f].bytes) ELSE 0)
    BY <1>1, <1>3, <1>4, ReceiptLoansChange
  <2>4. account[a] = Share(a, Program, paid) + CursorLoans(a) + CallLoans(a) + ReceiptLoans(a)
    BY DEF Books, Conserved
  <2>5. CursorLoans(a) \in Int /\ CallLoans(a) \in Int /\ ReceiptLoans(a) \in Int
    BY <1>1, LoansType
  <2>6. Share(a, Program, paid) \in Int /\ Share(a, receipt[f].on, receipt[f].bytes) \in Int
    BY <1>1, CursorAssumption DEF Share, ReceiptType, IInv, LeaseInv
  <2>7. Share(a, receipt'[f].on, receipt'[f].bytes) = Share(a, receipt[f].on, receipt[f].bytes)
    BY <1>3
  <2> QED
    BY <1>5, <2>1, <2>2, <2>3, <2>4, <2>5, <2>6, <2>7
<1>8. Conserved'
  BY <1>7 DEF Conserved
<1>9. ASSUME NEW u \in Threads
      PROVE  Staging(call'[u]) /\ Covered(u)' /\ Claims(u)'
  <2>1. CASE u = t
    BY <2>1, <1>2, <1>3 DEF Outside, Covered, Claims, Filling
  <2>2. CASE u # t
    <3>1. call'[u] = call[u] /\ call[u].fill # f /\ call[u].fill \in Receipts \cup {NoReceipt}
      BY <2>2, <1>1, <1>2 DEF CallType
    <3>2. Staging(call[u]) /\ Covered(u) /\ Claims(u)
      BY DEF Books
    <3>3. Covered(u)'
      BY <3>1, <3>2 DEF Covered
    <3>4. Claims(u)'
      BY <1>3, <3>1, <3>2 DEF Claims
    <3> QED
      BY <3>1, <3>2, <3>3, <3>4
  <2> QED
    BY <2>1, <2>2
<1>10. \A u, v \in Threads : call'[u].fill = call'[v].fill => u = v \/ call'[u].fill = NoReceipt
  BY <1>2 DEF Books
<1>11. /\ ended' \subseteq Cursors /\ root' \in BOOLEAN
       /\ \A c \in Cursors : cursor'[c].ledger >= 0
  BY DEF Books, leaseVars
<1> QED
  BY <1>3, <1>8, <1>9, <1>10, <1>11 DEF Books

LEMMA TakeAllowanceBooks ==
  ASSUME IInv, IInv', Books, NEW t \in Threads, NEW f \in Receipts, TakeAllowance(t, f)
  PROVE  Books'
<1> DEFINE r == [NewCall EXCEPT !.pc = "repay", !.fill = f]
<1>1. call[t].pc = "idle" /\ receipt[f].held /\ f # NoReceipt
  BY CursorAssumption DEF TakeAllowance, At
<1>2. \A u \in Threads : call[u].fill # f
  <2> SUFFICES ASSUME NEW u \in Threads, call[u].fill = f PROVE FALSE
    OBVIOUS
  <2>1. call[u].pc = "repay"
    BY DEF TakeAllowance, At
  <2>2. Filling(call[u], receipt[f])
    BY <1>1 DEF Books, Claims
  <2> QED
    BY <1>1, <2>1, <2>2 DEF Filling
<1>3. Outside(call[t]) /\ call[t].fill \in Receipts \cup {NoReceipt}
  BY <1>1 DEF IInv, Inside, CallType
<1>4. /\ r \in CallType /\ Outside(r) /\ r.granted = 0 /\ r.pc = "repay" /\ r.fill = f
      /\ Staging(r)
  BY <1>1, CursorAssumption DEF CallType, Pcs, NewCall, Statuses, Outside, Staging
<1>5. /\ Go(t, r) /\ receipt' = [receipt EXCEPT ![f].held = FALSE]
      /\ UNCHANGED <<cursor, leaseVars, root, account>> /\ account' \in [Accounts -> Int]
  BY DEF TakeAllowance, Books
<1>6. Owing(f)
  BY <1>1 DEF Owing
<1>7. receipt[f] \in ReceiptType /\ \A a \in Accounts : account[a] \in Int
  BY DEF Books
<1>8. \A a \in Accounts :
        account'[a] = account[a] - Share(a, receipt[f].on, receipt[f].bytes)
                                 + Share(a, receipt[f].on, receipt[f].bytes)
  BY <1>5, <1>7 DEF Share, ReceiptType
<1>9. (call[t].pc = "repay" => call[t].fill = f) /\ r.fill \in {NoReceipt, f}
  BY <1>1, <1>4
<1> HIDE DEF r
<1> QED
  BY <1>2, <1>3, <1>4, <1>5, <1>6, <1>8, <1>9, ReceiptStep

LEMMA RepayBooks ==
  ASSUME IInv, IInv', Books, NEW t \in Threads, Repay(t)
  PROVE  Books'
<1> DEFINE r == NewCall
<1>1. call[t].pc = "repay" /\ call[t].fill # NoReceipt
  BY DEF Repay, At, Books, Staging
<1>2. PICK f \in Receipts : f = call[t].fill
  BY <1>1 DEF IInv, CallType
<1>3. f # NoReceipt /\ Outside(call[t])
  BY <1>1, CursorAssumption DEF IInv, Inside
<1>4. \A u \in Threads \ {t} : call[u].fill # f
  BY <1>2, <1>3, OwnFill
<1>5. /\ r \in CallType /\ Outside(r) /\ r.granted = 0 /\ r.pc = "idle" /\ r.fill = NoReceipt
      /\ Staging(r)
  BY CursorAssumption DEF CallType, Pcs, NewCall, Statuses, Outside, Staging
<1>6. /\ Go(t, r) /\ receipt' = [receipt EXCEPT ![f].held = FALSE]
      /\ UNCHANGED <<cursor, leaseVars, root>>
      /\ Charge(receipt[f].on, -receipt[f].bytes)
  BY <1>2 DEF Repay
<1>7. Owing(f)
  BY <1>1, <1>2 DEF Owing, At
<1>8. receipt[f] \in ReceiptType /\ account \in [Accounts -> Int]
  BY DEF Books
<1>9. /\ account' \in [Accounts -> Int]
      /\ \A a \in Accounts : account'[a] = account[a] + Share(a, receipt[f].on, -receipt[f].bytes)
  BY <1>6, <1>8, ChargeIs DEF ReceiptType
<1>10. \A a \in Accounts :
         account'[a] = account[a] - Share(a, receipt[f].on, receipt[f].bytes) + 0
  BY <1>8, <1>9 DEF Share, ReceiptType
<1>11. (call[t].pc = "repay" => call[t].fill = f) /\ r.fill \in {NoReceipt, f}
  BY <1>2, <1>5
<1> HIDE DEF r
<1> QED
  BY <1>3, <1>4, <1>5, <1>6, <1>7, <1>9, <1>10, <1>11, ReceiptStep

--------------------------------------------------------------------------------
(* The owner's steps, and stuttering.                                           *)
LEMMA OwnerBooks ==
  ASSUME IInv, Books, DropRoot \/ CloseStorage \/ Refund \/ UNCHANGED vars
  PROVE  Books'
<1>1. /\ UNCHANGED <<call, cursor, receipt>> /\ ended' \subseteq Cursors /\ root' \in BOOLEAN
  BY DEF DropRoot, CloseStorage, Refund, vars, leaseVars, Lease!Close, Lease!Refund, Books
<1>2. /\ account' \in [Accounts -> Int]
      /\ \A a \in Accounts :
           account'[a] = account[a] + Share(a, Program, paid') - Share(a, Program, paid)
  <2>1. paid \in Int /\ account \in [Accounts -> Int]
    BY CursorAssumption DEF IInv, LeaseInv, Books
  <2>2. CASE DropRoot \/ CloseStorage \/ UNCHANGED vars
    <3>1. account' = account /\ paid' = paid
      BY <2>2 DEF DropRoot, CloseStorage, vars, leaseVars, Lease!Close
    <3> QED
      BY <2>1, <3>1 DEF Share
  <2>3. CASE Refund
    <3>1. paid' = 0 /\ Charge(Program, -paid)
      BY <2>3 DEF Refund, Lease!Refund
    <3>2. /\ account' \in [Accounts -> Int]
          /\ \A a \in Accounts : account'[a] = account[a] + Share(a, Program, -paid)
      BY <2>1, <3>1, ChargeIs, CursorAssumption
    <3> QED
      BY <2>1, <3>1, <3>2 DEF Share
  <2> QED
    BY <2>2, <2>3
<1>3. paid' \in Int /\ paid \in Int
  <2>1. paid \in Int
    BY CursorAssumption DEF IInv, LeaseInv
  <2>2. paid' \in {0, paid}
    BY DEF DropRoot, CloseStorage, Refund, vars, leaseVars, Lease!Close, Lease!Refund
  <2> QED
    BY <2>1, <2>2
<1>4. ASSUME NEW a \in Accounts
      PROVE  account'[a] =
               Share(a, Program, paid') + CursorLoans(a)' + CallLoans(a)' + ReceiptLoans(a)'
  <2>1. /\ CursorLoans(a)' = CursorLoans(a) /\ CallLoans(a)' = CallLoans(a)
        /\ ReceiptLoans(a)' = ReceiptLoans(a)
    BY <1>1 DEF CursorLoans, CallLoans, ReceiptLoans, Owing, At
  <2>2. account[a] = Share(a, Program, paid) + CursorLoans(a) + CallLoans(a) + ReceiptLoans(a)
    BY DEF Books, Conserved
  <2>3. CursorLoans(a) \in Int /\ CallLoans(a) \in Int /\ ReceiptLoans(a) \in Int
    BY LoansType DEF Books
  <2>4. Share(a, Program, paid) \in Int /\ Share(a, Program, paid') \in Int
    BY <1>3 DEF Share
  <2> QED
    BY <1>2, <2>1, <2>2, <2>3, <2>4
<1>5. Conserved'
  BY <1>4 DEF Conserved
<1>6. \A t \in Threads : Staging(call'[t]) /\ Covered(t)' /\ Claims(t)'
  BY <1>1 DEF Books, Covered, Claims
<1> QED
  BY <1>1, <1>2, <1>5, <1>6 DEF Books

--------------------------------------------------------------------------------
LEMMA InitBooks == Init => Books
<1> SUFFICES ASSUME Init PROVE Books
  OBVIOUS
<1>1. /\ receipt \in [Receipts -> ReceiptType] /\ account \in [Accounts -> Int]
      /\ ended \subseteq Cursors /\ root \in BOOLEAN
      /\ \A c \in Cursors : cursor[c].ledger = 0
      /\ \A t \in Threads : call[t] = NewCall
      /\ \A r \in Receipts : ~receipt[r].held
  BY CursorAssumption DEF Init, ReceiptType, NewCursor
<1>2. Staging(NewCall) /\ NewCall.cur = NoCursor /\ NewCall.fill = NoReceipt
      /\ NewCall.granted = 0 /\ NewCall.pc = "idle"
  BY DEF Staging, NewCall
<1>3. \A t \in Threads : Staging(call[t]) /\ Covered(t) /\ Claims(t)
  BY <1>1, <1>2 DEF Covered, Claims
<1>4. IInv
  BY InitInvariant
<1>5. ASSUME NEW a \in Accounts
      PROVE  account[a] =
               Share(a, Program, paid) + CursorLoans(a) + CallLoans(a) + ReceiptLoans(a)
  <2>1. CursorLoans(a) = 0
    <3> DEFINE z == [c \in Cursors |-> Share(a, cursor[c].working, cursor[c].ledger)]
    <3>1. DOMAIN z = Cursors /\ \A c \in Cursors : z[c] = 0
      BY <1>1 DEF Share
    <3> HIDE DEF z
    <3>2. SumFunction(z) = 0
      BY <3>1, SumZero, CursorAssumption DEF SumFunction
    <3> QED
      BY <3>2 DEF CursorLoans, z
  <2>2. CallLoans(a) = 0
    <3> DEFINE z == [t \in Threads |-> Share(a, call[t].to, call[t].granted)]
    <3>1. DOMAIN z = Threads /\ \A t \in Threads : z[t] = 0
      BY <1>1, <1>2 DEF Share
    <3> HIDE DEF z
    <3>2. SumFunction(z) = 0
      BY <3>1, SumZero, CursorAssumption DEF SumFunction
    <3> QED
      BY <3>2 DEF CallLoans, z
  <2>3. ReceiptLoans(a) = 0
    <3> DEFINE z == [r \in Receipts |->
                       IF Owing(r) THEN Share(a, receipt[r].on, receipt[r].bytes) ELSE 0]
    <3>1. \A r \in Receipts : ~Owing(r)
      BY <1>1, <1>2 DEF Owing, At
    <3>2. DOMAIN z = Receipts /\ \A r \in Receipts : z[r] = 0
      BY <3>1
    <3> HIDE DEF z
    <3>3. SumFunction(z) = 0
      BY <3>2, SumZero, CursorAssumption DEF SumFunction
    <3> QED
      BY <3>3 DEF ReceiptLoans, z
  <2>4. account[a] = Share(a, Program, paid) /\ account[a] \in Int
    BY CursorAssumption DEF Init, Share
  <2> QED
    BY <2>1, <2>2, <2>3, <2>4
<1>6. Conserved
  BY <1>5 DEF Conserved
<1>7. \A t, u \in Threads : call[t].fill = call[u].fill => t = u \/ call[t].fill = NoReceipt
  BY <1>1, <1>2
<1>8. \A c \in Cursors : cursor[c].ledger >= 0
  BY <1>1
<1> QED
  BY <1>1, <1>3, <1>6, <1>7, <1>8 DEF Books

LEMMA StepBooks ==
  ASSUME IInv, IInv', Books, [Next]_vars
  PROVE  Books'
<1>1. CASE DropRoot \/ CloseStorage \/ Refund \/ UNCHANGED vars
  BY <1>1, OwnerBooks
<1>2. ASSUME NEW t \in Threads, Step(t)
      PROVE  Books'
  <2>1. CASE EnterStorage(t) \/ EnterRejected(t) \/ BuildScratch(t) \/ Attach(t)
    BY <2>1, EnterStorageBooks, EnterRejectedBooks, BuildScratchBooks, AttachBooks
  <2>2. CASE Check(t) \/ Exhausted(t) \/ Stage(t) \/ Publish(t) \/ Transfer(t)
    BY <2>2, CheckBooks, ExhaustedBooks, StageBooks, PublishBooks, TransferBooks
  <2>3. CASE Grant(t) \/ ReleaseStaging(t) \/ Fill(t) \/ Unstage(t) \/ Restore(t)
    BY <2>3, GrantBooks, ReleaseStagingBooks, FillBooks, UnstageBooks, RestoreBooks
  <2>4. CASE Close(t) \/ EndUse(t) \/ Exit(t) \/ Repay(t)
    BY <2>4, CloseBooks, EndUseBooks, ExitBooks, RepayBooks
  <2> QED
    BY <1>2, <2>1, <2>2, <2>3, <2>4 DEF Step
<1>3. ASSUME NEW t \in Threads, BuildFails(t) \/ Faults(t) \/ Ungrant(t)
      PROVE  Books'
  BY <1>3, BuildFailsBooks, FaultsBooks, UngrantBooks
<1>4. ASSUME NEW t \in Threads, NEW c \in Cursors,
             \/ Dispose(t, c)
             \/ \E a \in Accounts : ReadRoot(t, c, a)
             \/ \E f \in Receipts \cup {NoReceipt}, a \in Accounts, own \in BOOLEAN :
                  MoveNext(t, c, f, a, own)
      PROVE  Books'
  BY <1>4, DisposeBooks, ReadRootBooks, MoveNextBooks
<1>5. ASSUME NEW t \in Threads, NEW f \in Receipts, TakeAllowance(t, f)
      PROVE  Books'
  BY <1>5, TakeAllowanceBooks
<1> QED
  BY <1>1, <1>2, <1>3, <1>4, <1>5 DEF Next

(* The books of the cursors are in order: every call has staged and been        *)
(* granted what its step says, a receipt being filled is not published yet and  *)
(* no two calls fill the same one, and the allowances count what is owed.       *)
THEOREM BooksInOrder == Spec => []Books
<1>1. IInv /\ IInv' /\ Books /\ [Next]_vars => Books'
  BY StepBooks
<1> QED
  BY <1>1, InitBooks, Invariance, PTL DEF Spec

(* No exit path of a construction, an advance, a Dispose or a receipt's Dispose *)
(* leaks a byte or repays one twice, on whichever allowances the caller mixes:  *)
(* each allowance counts what the program, the ledgers of its cursors, the      *)
(* hand-overs in progress and the receipts owe it.                              *)
THEOREM AllowancesAreConserved == Spec => []Conserved
<1>1. Books => Conserved
  BY DEF Books
<1> QED
  BY <1>1, BooksInOrder, PTL

(* From its staging until the call returns it, a retained result is charged to  *)
(* the working or to the result allowance: TransferTo reserves the new loan     *)
(* before it releases the staged one, whatever interrupts it.                   *)
THEOREM ResultsStayFunded == Spec => []NoFundingGap
<1>1. IInv /\ Books => NoFundingGap
  <2> SUFFICES ASSUME IInv, Books, NEW t \in Threads, Retains(t), ~At(t, "repay")
               PROVE  /\ call[t].pc \in {"staged", "granted", "fill"} =>
                           call[t].staged + call[t].granted >= ResultBytes
                      /\ At(t, "unstage") /\ call[t].end = "open" =>
                           /\ receipt[call[t].fill].held
                           /\ receipt[call[t].fill].bytes = ResultBytes
    BY DEF NoFundingGap
  <2>1. Staging(call[t]) /\ Filling(call[t], receipt[call[t].fill])
    BY DEF Books, Claims, Retains
  <2>2. call[t].pc \in {"staged", "granted", "fill"} =>
          call[t].staged + call[t].granted >= ResultBytes
    BY <2>1, CursorAssumption DEF Staging
  <2>3. At(t, "unstage") /\ call[t].end = "open" =>
          receipt[call[t].fill].held /\ receipt[call[t].fill].bytes = ResultBytes
    BY <2>1 DEF At, Filling
  <2> QED
    BY <2>2, <2>3
<1> QED
  BY <1>1, Invariance, BooksInOrder, PTL

(* No ledger of a cursor and no host allowance is ever driven below zero, and   *)
(* every field of the cursors, the receipts and the calls keeps its range.      *)
THEOREM CursorTypes == Spec => []TypeOK
<1>1. IInv /\ Books => TypeOK
  <2> SUFFICES ASSUME IInv, Books PROVE TypeOK
    OBVIOUS
  <2>1. /\ paid \in {0, ProgramBytes} /\ handed \in BOOLEAN /\ closed \in BOOLEAN
        /\ live \subseteq Cursors /\ ended \subseteq Cursors /\ root \in BOOLEAN
    BY DEF IInv, LeaseInv, Books
  <2>2. cursor \in [Cursors -> [status : Statuses, working : Accounts, ledger : Nat,
                                active : Threads \cup {NoThread},
                                tokens : SUBSET {"original", "advance"}]]
    <3>1. cursor \in [Cursors -> CursorType] /\ \A c \in Cursors : cursor[c].ledger >= 0
      BY DEF IInv, Books
    <3> QED
      BY <3>1 DEF CursorType
  <2>3. receipt \in [Receipts -> [held : BOOLEAN, bytes : Nat, on : Accounts]]
    BY DEF Books, ReceiptType
  <2>4. call \in [Threads -> [pc : Pcs, cur : Cursors \cup {NoCursor}, own : BOOLEAN,
                              to : Accounts, fill : Receipts \cup {NoReceipt},
                              staged : Nat, granted : Nat, end : Statuses]]
    BY DEF IInv, CallType
  <2>5. account \in [Accounts -> Nat]
    <3>1. ASSUME NEW a \in Accounts
          PROVE  account[a] \in Nat
      <4>1. account[a] =
              Share(a, Program, paid) + CursorLoans(a) + CallLoans(a) + ReceiptLoans(a)
        BY DEF Books, Conserved
      <4>2. CallLoans(a) \in Nat /\ ReceiptLoans(a) \in Nat
        BY LoansType DEF Books
      <4>3. CursorLoans(a) \in Nat
        <5> DEFINE f == [c \in Cursors |-> Share(a, cursor[c].working, cursor[c].ledger)]
        <5>1. DOMAIN f = Cursors /\ \A c \in Cursors : f[c] \in Nat
          BY <2>2 DEF Share
        <5> HIDE DEF f
        <5>2. SumFunction(f) \in Nat
          BY <5>1, SumNat, CursorAssumption DEF SumFunction
        <5> QED
          BY <5>2 DEF CursorLoans, f
      <4>4. Share(a, Program, paid) \in Nat
        BY <2>1, CursorAssumption DEF Share
      <4> QED
        BY <4>1, <4>2, <4>3, <4>4
    <3>2. account \in [Accounts -> Int]
      BY DEF Books
    <3> QED
      BY <3>1, <3>2
  <2> QED
    BY <2>1, <2>2, <2>3, <2>4, <2>5 DEF TypeOK
<1> QED
  BY <1>1, Invariance, BooksInOrder, PTL

(* Once every call has returned, no cursor is open and every receipt has been   *)
(* disposed, the allowances count nothing but the compilation, and nothing at   *)
(* all when that has been refunded.                                             *)
QuietOwesNothing ==
  /\ \A t \in Threads : At(t, "idle")
  /\ \A c \in Cursors : cursor[c].status # "open"
  /\ \A r \in Receipts : ~receipt[r].held
  => \A a \in Accounts : account[a] = Share(a, Program, paid)

(* However the cursors were created, advanced, interrupted and closed, on       *)
(* whichever allowances, what they and their receipts borrowed has gone back.   *)
THEOREM EverythingReturns == Spec => []QuietOwesNothing
<1>1. IInv /\ Books => QuietOwesNothing
  <2> SUFFICES ASSUME IInv, Books, \A t \in Threads : At(t, "idle"),
                      \A c \in Cursors : cursor[c].status # "open",
                      \A r \in Receipts : ~receipt[r].held,
                      NEW a \in Accounts
               PROVE  account[a] = Share(a, Program, paid)
    BY DEF QuietOwesNothing
  <2>1. \A t \in Threads : call[t].cur = NoCursor /\ call[t].granted = 0
    BY DEF IInv, Outside, Inside, At, Books, Staging
  <2>2. \A c \in Cursors : cursor[c].ledger = 0
    <3> TAKE c \in Cursors
    <3>1. \A t \in Threads : call[t].cur # c
      BY <2>1, CursorAssumption
    <3> QED
      BY <3>1 DEF IInv, Idle, IdleInv, Settled
  <2>3. CursorLoans(a) = 0
    <3> DEFINE z == [c \in Cursors |-> Share(a, cursor[c].working, cursor[c].ledger)]
    <3>1. DOMAIN z = Cursors /\ \A c \in Cursors : z[c] = 0
      BY <2>2 DEF Share
    <3> HIDE DEF z
    <3>2. SumFunction(z) = 0
      BY <3>1, SumZero, CursorAssumption DEF SumFunction
    <3> QED
      BY <3>2 DEF CursorLoans, z
  <2>4. CallLoans(a) = 0
    <3> DEFINE z == [t \in Threads |-> Share(a, call[t].to, call[t].granted)]
    <3>1. DOMAIN z = Threads /\ \A t \in Threads : z[t] = 0
      BY <2>1 DEF Share
    <3> HIDE DEF z
    <3>2. SumFunction(z) = 0
      BY <3>1, SumZero, CursorAssumption DEF SumFunction
    <3> QED
      BY <3>2 DEF CallLoans, z
  <2>5. ReceiptLoans(a) = 0
    <3> DEFINE z == [r \in Receipts |->
                       IF Owing(r) THEN Share(a, receipt[r].on, receipt[r].bytes) ELSE 0]
    <3>1. \A r \in Receipts : ~Owing(r)
      BY DEF Owing, At
    <3>2. DOMAIN z = Receipts /\ \A r \in Receipts : z[r] = 0
      BY <3>1
    <3> HIDE DEF z
    <3>3. SumFunction(z) = 0
      BY <3>2, SumZero, CursorAssumption DEF SumFunction
    <3> QED
      BY <3>3 DEF ReceiptLoans, z
  <2>6. Share(a, Program, paid) \in Int
    BY CursorAssumption DEF Share, IInv, LeaseInv
  <2> QED
    BY <2>3, <2>4, <2>5, <2>6 DEF Books, Conserved
<1> QED
  BY <1>1, Invariance, BooksInOrder, PTL

(* The owner and its cursors keep to the lease that Utf8FundedStorage           *)
(* implements: whatever they do to the program's storage is one of its steps,   *)
(* so no use is granted twice or after Close, and only a live one is ended.     *)
THEOREM CursorsFollowLease == Spec => [][Lease!Next]_leaseVars
<1>1. IInv /\ [Next]_vars => [Lease!Next]_leaseVars
  <2> SUFFICES ASSUME IInv, [Next]_vars PROVE Lease!Next \/ UNCHANGED leaseVars
    BY DEF leaseVars, Lease!leaseVars
  <2>1. CASE DropRoot \/ CloseStorage \/ Refund \/ UNCHANGED vars
    BY <2>1 DEF DropRoot, CloseStorage, Refund, vars, leaseVars, Lease!Next
  <2>2. ASSUME NEW t \in Threads, EnterStorage(t)
        PROVE  Lease!Next
    <3>1. call[t].cur \in Cursors
      BY <2>2, Entered DEF EnterStorage, At
    <3> QED
      BY <2>2, <3>1 DEF EnterStorage, Lease!Next
  <2>3. ASSUME NEW t \in Threads, EndUse(t)
        PROVE  Lease!Next \/ UNCHANGED leaseVars
    <3>1. call[t].cur \in Cursors
      BY <2>3, Entered DEF EndUse, At
    <3> QED
      BY <2>3, <3>1 DEF EndUse, Lease!Next
  <2>4. ASSUME NEW t \in Threads, Step(t), ~EnterStorage(t), ~EndUse(t)
        PROVE  UNCHANGED leaseVars
    BY <2>4 DEF Step, EnterRejected, BuildScratch, Attach, Check, Exhausted, Stage, Publish,
                Transfer, Grant, ReleaseStaging, Fill, Unstage, Restore, Close, Exit, Repay
  <2>5. ASSUME NEW t \in Threads, BuildFails(t) \/ Faults(t) \/ Ungrant(t)
        PROVE  UNCHANGED leaseVars
    BY <2>5 DEF BuildFails, Faults, Ungrant
  <2>6. ASSUME NEW t \in Threads, NEW c \in Cursors,
               \/ Dispose(t, c)
               \/ \E a \in Accounts : ReadRoot(t, c, a)
               \/ \E f \in Receipts \cup {NoReceipt}, a \in Accounts, own \in BOOLEAN :
                    MoveNext(t, c, f, a, own)
        PROVE  UNCHANGED leaseVars
    BY <2>6 DEF Dispose, ReadRoot, MoveNext
  <2>7. ASSUME NEW t \in Threads, NEW f \in Receipts, TakeAllowance(t, f)
        PROVE  UNCHANGED leaseVars
    BY <2>7 DEF TakeAllowance
  <2> QED
    BY <2>1, <2>2, <2>3, <2>4, <2>5, <2>6, <2>7 DEF Next
<1> QED
  BY <1>1, Invariance, PTL DEF Spec
================================================================================
