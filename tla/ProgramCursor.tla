----------------------------- MODULE ProgramCursor -----------------------------
(* Utf8RegexProgramOwner, the persistent cursors it creates and the range       *)
(* receipts they publish.  The program's own storage is the abstract lease of   *)
(* FundedLease, which FundedStorage implements; one use of it per cursor.       *)
(* Threads interleave between every two calls to a host allowance, and an       *)
(* advance may fail at every checkpoint: token, deadline, limit or refusal.     *)
EXTENDS Integers, FiniteSets, Functions

CONSTANTS Threads, NoThread,
          Cursors, NoCursor,     \* cursor objects; also the uses of the program lease
          Receipts, NoReceipt,   \* Utf8RetainedRangeMatch objects
          Accounts, Program,     \* host allowances; Program funds the compilation
          ProgramBytes,          \* what the compilation reserved
          ScratchBytes,          \* slots, workspace and search state of a cursor
          ResultBytes            \* one snapshot with its receipt

ASSUME CursorAssumption ==
  /\ NoThread \notin Threads /\ NoCursor \notin Cursors /\ NoReceipt \notin Receipts
  /\ IsFiniteSet(Cursors) /\ IsFiniteSet(Receipts) /\ IsFiniteSet(Threads)
  /\ Program \in Accounts
  /\ {ProgramBytes, ScratchBytes, ResultBytes} \subseteq Nat \ {0}

VARIABLES paid, handed, live, ended, closed,   \* the program's lease
          root,      \* _regex of the owner is not null
          cursor,    \* the cursor objects
          receipt,   \* the receipt objects
          call,      \* the stack of each thread's call
          account    \* bytes each host allowance counts

Lease == INSTANCE FundedLease WITH Uses <- Cursors, Charge <- ProgramBytes

leaseVars == <<paid, handed, live, ended, closed>>
vars == <<paid, handed, live, ended, closed, root, cursor, receipt, call, account>>

(* A call: its cursor, whether it brings a token of its own, the account and    *)
(* object of its receipt (NoReceipt for plain ranges), the bytes it has staged  *)
(* and been granted, and the status that Close is about to give the cursor.     *)
NewCall ==
  [pc |-> "idle", cur |-> NoCursor, own |-> FALSE, to |-> Program, fill |-> NoReceipt,
   staged |-> 0, granted |-> 0, end |-> "open"]

NewCursor ==
  [status |-> "unborn", working |-> Program, ledger |-> 0, active |-> NoThread,
   tokens |-> {"original"}]

Init ==
  /\ paid = ProgramBytes /\ handed = TRUE
  /\ live = {} /\ ended = {} /\ closed = FALSE
  /\ root = TRUE
  /\ cursor = [c \in Cursors |-> NewCursor]
  /\ receipt = [r \in Receipts |-> [held |-> FALSE, bytes |-> 0, on |-> Program]]
  /\ call = [t \in Threads |-> NewCall]
  /\ account = [a \in Accounts |-> IF a = Program THEN ProgramBytes ELSE 0]

At(t, pc) == call[t].pc = pc

Go(t, r) == call' = [call EXCEPT ![t] = r]

Cur(t) == cursor[call[t].cur]

SetCur(t, r) == cursor' = [cursor EXCEPT ![call[t].cur] = r]

(* TryReserve and Release of one host allowance.                                *)
Charge(a, n) == account' = [account EXCEPT ![a] = @ + n]

--------------------------------------------------------------------------------
(* The owner.                                                                   *)

(* CreateMatchCursor reads _regex once; null means the owner was disposed.      *)
ReadRoot(t, c, a) ==
  /\ At(t, "idle") /\ root
  /\ cursor[c].status = "unborn" /\ c \notin live \cup ended
  /\ \A u \in Threads : call[u].cur # c
  /\ Go(t, [NewCall EXCEPT !.pc = "enter", !.cur = c, !.to = a, !.end = "unborn"])
  /\ UNCHANGED <<leaseVars, root, cursor, receipt, account>>

\* mutant: the closed gate is tested, but no use is taken
EnterStorage_NoUse(t) ==
  /\ At(t, "enter") /\ ~closed
  /\ SetCur(t, [Cur(t) EXCEPT !.working = call[t].to])
  /\ Go(t, [call[t] EXCEPT !.pc = "build"])
  /\ UNCHANGED <<leaseVars, root, receipt, account>>

(* _storage.Enter: a use is granted, or ObjectDisposedException is thrown.      *)
EnterStorage(t) ==
  /\ At(t, "enter") /\ ~closed
  /\ Lease!Grant(call[t].cur)
  /\ SetCur(t, [Cur(t) EXCEPT !.working = call[t].to])
  /\ Go(t, [call[t] EXCEPT !.pc = "build"])
  /\ UNCHANGED <<root, receipt, account>>

EnterRejected(t) ==
  /\ At(t, "enter") /\ closed
  /\ Go(t, NewCall)
  /\ UNCHANGED <<leaseVars, root, cursor, receipt, account>>

(* The cursor's constructor reserves scratch; the allowance may refuse it, and  *)
(* validation, a limit or an interruption may fail it before or after.          *)
BuildScratch(t) ==
  /\ At(t, "build") /\ Cur(t).ledger = 0
  /\ SetCur(t, [Cur(t) EXCEPT !.ledger = ScratchBytes])
  /\ Charge(Cur(t).working, ScratchBytes)
  /\ UNCHANGED <<leaseVars, root, receipt, call>>

(* AttachProgramUse: the cursor escapes to the caller.                          *)
Attach(t) ==
  /\ At(t, "build") /\ Cur(t).ledger # 0
  /\ SetCur(t, [Cur(t) EXCEPT !.status = "open"])
  /\ Go(t, NewCall)
  /\ UNCHANGED <<leaseVars, root, receipt, account>>

\* mutant: a failing constructor leaves the use it entered
BuildFails_LeaksUse(t) ==
  /\ At(t, "build")
  /\ Go(t, NewCall)
  /\ SetCur(t, [Cur(t) EXCEPT !.ledger = 0])
  /\ Charge(Cur(t).working, -Cur(t).ledger)
  /\ UNCHANGED <<leaseVars, root, receipt>>

(* The constructor's catch closes the cursor and the owner's disposes the use.  *)
BuildFails(t) ==
  /\ At(t, "build")
  /\ Go(t, [call[t] EXCEPT !.pc = "close"])
  /\ UNCHANGED <<leaseVars, root, cursor, receipt, account>>

(* Dispose drops the root first, then closes the storage.                       *)
DropRoot ==
  /\ root /\ root' = FALSE
  /\ UNCHANGED <<leaseVars, cursor, receipt, call, account>>

CloseStorage ==
  /\ ~root /\ Lease!Close
  /\ UNCHANGED <<root, cursor, receipt, call, account>>

(* The refund that Close or the last Leave makes after the storage's gate.      *)
Refund ==
  /\ Lease!Refund
  /\ Charge(Program, -paid)
  /\ UNCHANGED <<root, cursor, receipt, call>>

--------------------------------------------------------------------------------
(* MoveNext and MoveNextRetained.                                               *)

(* Enter: the compare-exchange of _active.  It fails, and the call throws       *)
(* without any change, while another call (or a reentrant one) is in flight.    *)
Acquire(t, c) ==
  /\ At(t, "idle") /\ cursor[c].status # "unborn"
  /\ cursor[c].active = NoThread
  /\ cursor' = [cursor EXCEPT ![c].active = t]

Unused(r) ==
  /\ ~receipt[r].held /\ receipt[r].bytes = 0
  /\ \A u \in Threads : call[u].fill # r

(* r is the receipt that MoveNextRetained may publish under account a, or       *)
(* NoReceipt for MoveNext; own says that the call brings a token.               *)
MoveNext(t, c, r, a, own) ==
  /\ Acquire(t, c)
  /\ IF r = NoReceipt THEN a = cursor[c].working ELSE Unused(r)
  /\ Go(t, [NewCall EXCEPT !.pc = "check", !.cur = c, !.fill = r, !.to = a, !.own = own])
  /\ UNCHANGED <<leaseVars, root, receipt, account>>

Retains(t) == call[t].fill # NoReceipt

(* ExchangeCancellationToken, with a linked source when both may fire.          *)
Borrowed(t) == {"original"} \cup (IF call[t].own THEN {"advance"} ELSE {})

\* mutant: a cursor that failed may be advanced again
Advances_Faulted(c) == cursor[c].status \in {"open", "faulted"}

Advances(c) == cursor[c].status = "open"

(* A closed cursor answers false or throws, and nothing else happens.           *)
Check(t) ==
  /\ At(t, "check")
  /\ IF Advances(call[t].cur)
     THEN /\ Go(t, [call[t] EXCEPT !.pc = "search"])
          /\ SetCur(t, [Cur(t) EXCEPT !.tokens = Borrowed(t)])
     ELSE /\ Go(t, [call[t] EXCEPT !.pc = "exit"])
          /\ UNCHANGED cursor
  /\ UNCHANGED <<leaseVars, root, receipt, account>>

(* The search ends without a match, or the position was past the last one.      *)
Exhausted(t) ==
  /\ At(t, "search")
  /\ Go(t, [call[t] EXCEPT !.pc = "unstage", !.end = "ended"])
  /\ UNCHANGED <<leaseVars, root, cursor, receipt, account>>

(* A match: Snapshot, and the receipt with its names, reserved as staging.      *)
Stage(t) ==
  /\ At(t, "search")
  /\ SetCur(t, [Cur(t) EXCEPT !.ledger = @ + ResultBytes])
  /\ Charge(Cur(t).working, ResultBytes)
  /\ Go(t, [call[t] EXCEPT !.pc = "staged", !.staged = ResultBytes])
  /\ UNCHANGED <<leaseVars, root, receipt>>

(* Any exception of the advance: limit, deadline, token or refusal.             *)
Faults(t) ==
  /\ call[t].pc \in {"search", "staged"}
  /\ Go(t, [call[t] EXCEPT !.pc = "unstage", !.end = "faulted"])
  /\ UNCHANGED <<leaseVars, root, cursor, receipt, account>>

(* Plain ranges are returned to the caller; their admission ends in finally.    *)
Publish(t) ==
  /\ At(t, "staged") /\ ~Retains(t)
  /\ Go(t, [call[t] EXCEPT !.pc = "unstage"])
  /\ UNCHANGED <<leaseVars, root, cursor, receipt, account>>

\* mutant: the transferred loan stays in the result ledger and is released again
Transfer_KeepsMarker(t) ==
  /\ At(t, "staged") /\ Retains(t) /\ call[t].to = Cur(t).working
  /\ receipt' = [receipt EXCEPT ![call[t].fill] =
                   [held |-> TRUE, bytes |-> call[t].staged, on |-> call[t].to]]
  /\ SetCur(t, [Cur(t) EXCEPT !.ledger = @ - call[t].staged])
  /\ Go(t, [call[t] EXCEPT !.pc = "unstage"])
  /\ UNCHANGED <<leaseVars, root, account>>

(* The allowance of the receipt is the working allowance: TransferSince moves   *)
(* the staged loan to the receipt and no host call is made.                     *)
Transfer(t) ==
  /\ At(t, "staged") /\ Retains(t) /\ call[t].to = Cur(t).working
  /\ receipt' = [receipt EXCEPT ![call[t].fill] =
                   [held |-> TRUE, bytes |-> call[t].staged, on |-> call[t].to]]
  /\ SetCur(t, [Cur(t) EXCEPT !.ledger = @ - call[t].staged])
  /\ Go(t, [call[t] EXCEPT !.pc = "unstage", !.staged = 0])
  /\ UNCHANGED <<leaseVars, root, account>>

\* mutant: the staging loan is released before the result account has granted
Grant_AfterRelease(t) ==
  /\ At(t, "staged") /\ Retains(t) /\ call[t].to # Cur(t).working
  /\ SetCur(t, [Cur(t) EXCEPT !.ledger = @ - call[t].staged])
  /\ Charge(Cur(t).working, -call[t].staged)
  /\ Go(t, [call[t] EXCEPT !.pc = "granted", !.staged = 0])
  /\ UNCHANGED <<leaseVars, root, receipt>>

(* A separate result account reserves while the staging loan is still held.     *)
Grant(t) ==
  /\ At(t, "staged") /\ Retains(t) /\ call[t].to # Cur(t).working
  /\ Go(t, [call[t] EXCEPT !.pc = "granted", !.granted = call[t].staged])
  /\ Charge(call[t].to, call[t].staged)
  /\ UNCHANGED <<leaseVars, root, cursor, receipt>>

\* mutant: a failure at the checkpoint after the grant keeps the new loan
Ungrant_Keeps(t) ==
  /\ At(t, "granted")
  /\ Go(t, [call[t] EXCEPT !.pc = "unstage", !.granted = 0, !.end = "faulted"])
  /\ UNCHANGED <<leaseVars, root, cursor, receipt, account>>

(* The checkpoint after the grant fails: the new loan is given back first.      *)
Ungrant(t) ==
  /\ At(t, "granted")
  /\ Charge(call[t].to, -call[t].granted)
  /\ Go(t, [call[t] EXCEPT !.pc = "unstage", !.granted = 0, !.end = "faulted"])
  /\ UNCHANGED <<leaseVars, root, cursor, receipt>>

(* The checkpoint passes: the staging loan is released ...                      *)
ReleaseStaging(t) ==
  /\ At(t, "granted")
  /\ SetCur(t, [Cur(t) EXCEPT !.ledger = @ - call[t].staged])
  /\ Charge(Cur(t).working, -call[t].staged)
  /\ Go(t, [call[t] EXCEPT !.pc = "fill", !.staged = 0])
  /\ UNCHANGED <<leaseVars, root, receipt>>

(* ... and the receipt takes over the new one.                                  *)
Fill(t) ==
  /\ At(t, "fill")
  /\ receipt' = [receipt EXCEPT ![call[t].fill] =
                   [held |-> TRUE, bytes |-> call[t].granted, on |-> call[t].to]]
  /\ Go(t, [call[t] EXCEPT !.pc = "unstage", !.granted = 0])
  /\ UNCHANGED <<leaseVars, root, cursor, account>>

(* Advance's finally releases what is still staged, before any Close.           *)
Unstage(t) ==
  /\ At(t, "unstage")
  /\ SetCur(t, [Cur(t) EXCEPT !.ledger = @ - call[t].staged])
  /\ Charge(Cur(t).working, -call[t].staged)
  /\ Go(t, [call[t] EXCEPT !.staged = 0,
              !.pc = IF call[t].end = "ended" THEN "close" ELSE "restore"])
  /\ UNCHANGED <<leaseVars, root, receipt>>

\* mutant: the token is restored only when the advance succeeded
Restore_OnSuccess(t) ==
  /\ At(t, "restore")
  /\ SetCur(t, [Cur(t) EXCEPT !.tokens = IF call[t].end = "faulted" THEN @ ELSE {"original"}])
  /\ Go(t, [call[t] EXCEPT !.pc = IF Cur(t).status = "open" /\ call[t].end = "faulted"
                                  THEN "close" ELSE "exit"])
  /\ UNCHANGED <<leaseVars, root, receipt, account>>

(* MoveNextCore's finally restores the token; its catch closes a failed cursor. *)
Restore(t) ==
  /\ At(t, "restore")
  /\ SetCur(t, [Cur(t) EXCEPT !.tokens = {"original"}])
  /\ Go(t, [call[t] EXCEPT !.pc = IF Cur(t).status = "open" /\ call[t].end = "faulted"
                                  THEN "close" ELSE "exit"])
  /\ UNCHANGED <<leaseVars, root, receipt, account>>

(* Dispose enters like an advance and closes whatever the status is.            *)
Dispose(t, c) ==
  /\ Acquire(t, c)
  /\ Go(t, [NewCall EXCEPT !.pc = "close", !.cur = c, !.end = "disposed"])
  /\ UNCHANGED <<leaseVars, root, receipt, account>>

(* Close: the status, the roots, and every byte the ledger still holds ...      *)
Close(t) ==
  /\ At(t, "close")
  /\ SetCur(t, [Cur(t) EXCEPT !.status = call[t].end, !.ledger = 0])
  /\ Charge(Cur(t).working, -Cur(t).ledger)
  /\ Go(t, [call[t] EXCEPT !.pc = "endUse"])
  /\ UNCHANGED <<leaseVars, root, receipt>>

\* mutant: closing a cursor at the end of its subject forgets the program use
EndUse_NotAtEnd(t) ==
  /\ At(t, "endUse")
  /\ IF call[t].cur \in live /\ call[t].end # "ended"
     THEN Lease!End(call[t].cur) ELSE UNCHANGED leaseVars
  /\ Go(t, [call[t] EXCEPT !.pc = IF call[t].end = "ended" THEN "restore" ELSE "exit"])
  /\ UNCHANGED <<root, cursor, receipt, account>>

(* ... and then, once, the program use.                                         *)
EndUse(t) ==
  /\ At(t, "endUse")
  /\ IF call[t].cur \in live THEN Lease!End(call[t].cur) ELSE UNCHANGED leaseVars
  /\ Go(t, [call[t] EXCEPT !.pc = IF call[t].end = "ended" THEN "restore" ELSE "exit"])
  /\ UNCHANGED <<root, cursor, receipt, account>>

(* Exit clears _active.                                                         *)
Exit(t) ==
  /\ At(t, "exit")
  /\ SetCur(t, [Cur(t) EXCEPT !.active = NoThread])
  /\ Go(t, NewCall)
  /\ UNCHANGED <<leaseVars, root, receipt, account>>

--------------------------------------------------------------------------------
(* Receipts.                                                                    *)

(* Dispose of a published receipt: the exchange of _allowance lets one caller   *)
(* through.                                                                     *)
TakeAllowance(t, r) ==
  /\ At(t, "idle") /\ receipt[r].held
  /\ \A u \in Threads : call[u].fill = r => At(u, "repay")
  /\ receipt' = [receipt EXCEPT ![r].held = FALSE]
  /\ Go(t, [NewCall EXCEPT !.pc = "repay", !.fill = r])
  /\ UNCHANGED <<leaseVars, root, cursor, account>>

(* The refund; the modeled charge stays readable as ChargedBytes.               *)
Repay(t) ==
  /\ At(t, "repay")
  /\ Charge(receipt[call[t].fill].on, -receipt[call[t].fill].bytes)
  /\ receipt' = [receipt EXCEPT ![call[t].fill].held = FALSE]
  /\ Go(t, NewCall)
  /\ UNCHANGED <<leaseVars, root, cursor>>

Step(t) ==
  \/ EnterStorage(t) \/ EnterRejected(t) \/ BuildScratch(t) \/ Attach(t)
  \/ Check(t) \/ Exhausted(t) \/ Stage(t) \/ Publish(t) \/ Transfer(t)
  \/ Grant(t) \/ ReleaseStaging(t) \/ Fill(t) \/ Unstage(t) \/ Restore(t)
  \/ Close(t) \/ EndUse(t) \/ Exit(t) \/ Repay(t)

Next ==
  \/ DropRoot \/ CloseStorage \/ Refund
  \/ \E t \in Threads :
       \/ Step(t) \/ BuildFails(t) \/ Faults(t) \/ Ungrant(t)
       \/ \E c \in Cursors :
            \/ Dispose(t, c)
            \/ \E a \in Accounts : ReadRoot(t, c, a)
            \/ \E r \in Receipts \cup {NoReceipt}, a \in Accounts, own \in BOOLEAN :
                 MoveNext(t, c, r, a, own)
       \/ \E r \in Receipts : TakeAllowance(t, r)

Spec == Init /\ [][Next]_vars

(* A call that has begun runs on, an owner's Dispose completes, and the thread  *)
(* that left the storage last makes its refund.                                 *)
Fairness ==
  /\ \A t \in Threads : WF_vars(Step(t))
  /\ WF_vars(CloseStorage) /\ WF_vars(Refund)

FairSpec == Spec /\ Fairness

--------------------------------------------------------------------------------
Statuses == {"unborn", "open", "ended", "faulted", "disposed"}

Terminal == {"ended", "faulted", "disposed"}

Pcs == {"idle", "enter", "build", "check", "search", "staged", "granted", "fill",
        "unstage", "restore", "close", "endUse", "exit", "repay"}

TypeOK ==
  /\ paid \in {0, ProgramBytes} /\ handed \in BOOLEAN /\ closed \in BOOLEAN
  /\ live \subseteq Cursors /\ ended \subseteq Cursors /\ root \in BOOLEAN
  /\ cursor \in [Cursors -> [status : Statuses, working : Accounts, ledger : Nat,
                             active : Threads \cup {NoThread},
                             tokens : SUBSET {"original", "advance"}]]
  /\ receipt \in [Receipts -> [held : BOOLEAN, bytes : Nat, on : Accounts]]
  /\ call \in [Threads -> [pc : Pcs, cur : Cursors \cup {NoCursor}, own : BOOLEAN,
                           to : Accounts, fill : Receipts \cup {NoReceipt},
                           staged : Nat, granted : Nat, end : Statuses]]
  /\ account \in [Accounts -> Nat]

(* What a loan of n bytes from account b contributes to account a.              *)
Share(a, b, n) == IF a = b THEN n ELSE 0

(* A receipt owes its bytes until the refund that follows the exchange.         *)
Owing(r) ==
  receipt[r].held \/ \E t \in Threads : At(t, "repay") /\ call[t].fill = r

CursorLoans(a) ==
  SumFunction([c \in Cursors |-> Share(a, cursor[c].working, cursor[c].ledger)])

CallLoans(a) ==
  SumFunction([t \in Threads |-> Share(a, call[t].to, call[t].granted)])

ReceiptLoans(a) ==
  SumFunction([r \in Receipts |->
                 IF Owing(r) THEN Share(a, receipt[r].on, receipt[r].bytes) ELSE 0])

(* Between any two host calls, each allowance counts exactly what the program,  *)
(* the cursors' ledgers, the receipts and the hand-over in progress owe it:     *)
(* no exit path of an advance, a construction or a Dispose leaks or repays      *)
(* twice, whichever accounts the caller mixes.                                  *)
Conserved ==
  \A a \in Accounts :
    account[a] = Share(a, Program, paid) + CursorLoans(a) + CallLoans(a) + ReceiptLoans(a)

(* An open cursor keeps the compilation funded although its owner was disposed, *)
(* even by a Dispose between the read of _regex and the entry of the storage.   *)
OpenCursorsFunded ==
  \A c \in Cursors : cursor[c].status = "open" => paid = ProgramBytes

(* A cursor that nobody is inside and that can yield nothing more holds no      *)
(* scratch and no use of the program, whichever of end of subject, failure,     *)
(* Dispose or a failed construction closed it.                                  *)
ClosedHoldsNothing ==
  \A c \in Cursors :
    /\ cursor[c].status # "open"
    /\ \A t \in Threads : call[t].cur # c
    => cursor[c].ledger = 0 /\ c \notin live

(* At most one call is inside a cursor, and an advance in progress answers to   *)
(* the original token as well as to its own; between advances only the original *)
(* one remains.                                                                 *)
TokenAuthority ==
  /\ \A t, u \in Threads : call[t].cur = call[u].cur => t = u \/ call[t].cur = NoCursor
  /\ \A t \in Threads : call[t].pc \in {"search", "staged", "granted", "fill"} =>
        Cur(t).tokens = {"original"} \cup (IF call[t].own THEN {"advance"} ELSE {})
  /\ \A c \in Cursors : cursor[c].active = NoThread => cursor[c].tokens = {"original"}

(* The documented overlap: from its staging until it is returned, a retained    *)
(* result is funded by at least one allowance at every moment.                  *)
NoFundingGap ==
  \A t \in Threads : Retains(t) /\ ~At(t, "repay") =>
    /\ call[t].pc \in {"staged", "granted", "fill"} =>
         call[t].staged + call[t].granted >= ResultBytes
    /\ At(t, "unstage") /\ call[t].end = "open" =>
         receipt[call[t].fill].held /\ receipt[call[t].fill].bytes = ResultBytes

(* Failure and end are terminal: such a cursor never reserves again and only    *)
(* Dispose changes its status.                                                  *)
TerminalStays ==
  [][\A c \in Cursors : cursor[c].status \in Terminal =>
       /\ cursor'[c].status \in {cursor[c].status, "disposed"}
       /\ cursor'[c].ledger <= cursor[c].ledger]_vars

(* Once the owner is disposed and its cursors are closed for good, the          *)
(* compilation is refunded.                                                     *)
ProgramRefunded ==
  <>[](~root /\ \A c \in Cursors : cursor[c].status # "open") => <>(paid = 0)
================================================================================
