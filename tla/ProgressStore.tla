---------------------------- MODULE ProgressStore ----------------------------
(***************************************************************************)
(* The play_progress table and everything that writes it: the statements   *)
(* of internal/repo/playback.go behind the PlayedItems and FavoriteItems   *)
(* endpoints, the report transaction of recordPlayback, and the            *)
(* ProgressBuffer of internal/api/emby/sessions.go with its ticker, the    *)
(* administrator's flush and the shutdown.                                 *)
(*                                                                         *)
(* The repository's calls are not transactions: each reads the row and     *)
(* then inserts or updates it, and MarkAsPlayed updates it twice.  Rows    *)
(* are not deleted here (PlaybackSessions has the deletions).              *)
(***************************************************************************)
EXTENDS Naturals, FiniteSets

CONSTANTS
    Keys,           \* <<user, item>> pairs
    Positions,      \* reported positions, not 0
    Callers,        \* goroutines inside a repository call
    MaxCalls,       \* bound: repository calls, toggles and reports
    MaxBuffered,    \* bound: calls of BufferProgress
    MaxCrashes,     \* bound: crashes
    FlushAttempts,  \* flushes ShutdownProgressBuffer tries (3 in the code)
    None

Row   == [pos : Positions \cup {0}, played : BOOLEAN, count : Nat, fav : BOOLEAN]
Kinds == {"played", "favorite", "position"}
Call  == [kind : Kinds, key : Keys, pos : Positions \cup {0},
          at : {"absent", "present", "flagged", "done"}]
Flushers == {"ticker", "manual", "shutdown"}

Arguments(kind) == IF kind = "position" THEN Positions ELSE {0}

ASSUME ConstantsAssumption ==
    /\ IsFiniteSet(Callers)
    /\ Positions \subseteq Nat \ {0}
    /\ MaxCalls \in Nat /\ MaxBuffered \in Nat /\ MaxCrashes \in Nat
    /\ FlushAttempts \in Nat \ {0}
    /\ None \notin Positions \cup Row \cup Call \cup Flushers

VARIABLES
    rows,       \* play_progress
    call,       \* call[c]: the repository call goroutine c is in
    buffer,     \* ProgressBuffer.buffer
    pbMu,       \* holder of ProgressBuffer.mu: who is flushing
    committed,  \* the holder's transaction has committed
    ticking,    \* the ticker goroutine has not returned
    closing,    \* the done channel is closed
    attempts,   \* flushes the shutdown has tried
    outcome,    \* "up", or how ShutdownProgressBuffer ended
    flushed,    \* history: what flushes have last committed
    late,       \* history: keys buffered after the shutdown began
    halfMarked, \* history: keys with a play flagged and never counted
    calls, buffered, crashes    \* the bounds

bufferVars == <<buffer, pbMu, committed, ticking, closing, attempts, outcome,
                flushed, late>>
bounds == <<calls, buffered, crashes>>
vars == <<rows, call, bufferVars, halfMarked, bounds>>

Pos(k) == IF rows[k] = None THEN 0 ELSE rows[k].pos

-----------------------------------------------------------------------------
Init ==
    /\ rows = [k \in Keys |-> None]
    /\ call = [c \in Callers |-> None]
    /\ buffer = [k \in Keys |-> None]
    /\ pbMu = None
    /\ committed = FALSE
    /\ ticking = TRUE
    /\ closing = FALSE
    /\ attempts = 0
    /\ outcome = "up"
    /\ flushed = [k \in Keys |-> None]
    /\ late = {}
    /\ halfMarked = {}
    /\ calls = 0 /\ buffered = 0 /\ crashes = 0

Called ==
    /\ calls < MaxCalls
    /\ calls' = calls + 1
    /\ UNCHANGED <<buffered, crashes>>

(***************************************************************************)
(* MarkAsPlayed, MarkAsFavorite, UpdatePlayProgress                        *)
(***************************************************************************)

\* The call begins with SELECT ... First(&progress).
Read(c, kind, k, p) ==
    /\ Called
    /\ call[c] = None
    /\ call' = [call EXCEPT ![c] =
            [kind |-> kind, key |-> k, pos |-> p,
             at |-> IF rows[k] = None THEN "absent" ELSE "present"]]
    /\ UNCHANGED <<rows, bufferVars, halfMarked>>

NewRow(kind, p) ==
    [pos    |-> IF kind = "position" THEN p ELSE 0,
     played |-> kind = "played",
     count  |-> IF kind = "played" THEN 1 ELSE 0,
     fav    |-> kind = "favorite"]

Return(c) == call' = [call EXCEPT ![c] = None]
Goto(c, at) == call' = [call EXCEPT ![c].at = at]

\* Mutant: INSERT OR REPLACE, which drops the columns somebody else has set.
CreateOrReplace(c) ==
    LET o == call[c] IN
    /\ o # None /\ o.at = "absent"
    /\ rows' = [rows EXCEPT ![o.key] = NewRow(o.kind, o.pos)]
    /\ Goto(c, "done")
    /\ UNCHANGED <<bufferVars, halfMarked, bounds>>

\* INSERT.  If somebody has created the row since it was read, the primary
\* key rejects it and the call fails.
Create(c) ==
    LET o == call[c] IN
    /\ o # None /\ o.at = "absent"
    /\ IF rows[o.key] = None
       THEN /\ rows' = [rows EXCEPT ![o.key] = NewRow(o.kind, o.pos)]
            /\ Goto(c, "done")
       ELSE Return(c) /\ UNCHANGED rows
    /\ UNCHANGED <<bufferVars, halfMarked, bounds>>

\* UPDATE of the one column; MarkAsPlayed goes on to a second statement.
Update(c) ==
    LET o == call[c] IN
    /\ o # None /\ o.at = "present"
    /\ rows' = CASE o.kind = "played"   -> [rows EXCEPT ![o.key].played = TRUE]
                 [] o.kind = "favorite" -> [rows EXCEPT ![o.key].fav = TRUE]
                 [] o.kind = "position" -> [rows EXCEPT ![o.key].pos = o.pos]
    /\ Goto(c, IF o.kind = "played" THEN "flagged" ELSE "done")
    /\ UNCHANGED <<bufferVars, halfMarked, bounds>>

\* UPDATE ... SET play_count = play_count + 1
CountPlay(c) ==
    LET o == call[c] IN
    /\ o # None /\ o.at = "flagged"
    /\ rows' = [rows EXCEPT ![o.key].count = @ + 1]
    /\ Goto(c, "done")
    /\ UNCHANGED <<bufferVars, halfMarked, bounds>>

\* A statement fails; what earlier statements did stays.
StatementFails(c) ==
    LET o == call[c] IN
    /\ o # None /\ o.at # "done"
    /\ Return(c)
    /\ halfMarked' = IF o.at = "flagged" THEN halfMarked \cup {o.key} ELSE halfMarked
    /\ UNCHANGED <<rows, bufferVars, bounds>>

Answer(c) ==
    /\ call[c] # None /\ call[c].at = "done"
    /\ Return(c)
    /\ UNCHANGED <<rows, bufferVars, halfMarked, bounds>>

\* toggleFlag: one UPDATE, which touches nothing when there is no row.
Toggle(k, column) ==
    /\ Called
    /\ rows[k] # None
    /\ rows' = CASE column = "is_played"   -> [rows EXCEPT ![k].played = FALSE]
                 [] column = "is_favorite" -> [rows EXCEPT ![k].fav = FALSE]
    /\ UNCHANGED <<call, bufferVars, halfMarked>>

(***************************************************************************)
(* recordPlayback's transaction                                            *)
(***************************************************************************)

\* writeProgress: INSERT ... ON CONFLICT DO UPDATE position_ticks.
WriteProgress(row, p) ==
    IF row = None THEN [pos |-> p, played |-> FALSE, count |-> 0, fav |-> FALSE]
                  ELSE [row EXCEPT !.pos = p]

Finished(row) ==
    IF row.played THEN row ELSE [row EXCEPT !.played = TRUE, !.count = @ + 1]

\* A report; complete says that it is a Stopped report past 90 percent.
Report(k, p, complete) ==
    /\ Called
    /\ rows' = [rows EXCEPT ![k] =
            IF complete THEN Finished(WriteProgress(@, p)) ELSE WriteProgress(@, p)]
    /\ UNCHANGED <<call, bufferVars, halfMarked>>

(***************************************************************************)
(* ProgressBuffer                                                          *)
(***************************************************************************)

Put(k, p) ==
    /\ buffered < MaxBuffered
    /\ buffered' = buffered + 1
    /\ buffer' = [buffer EXCEPT ![k] = p]
    /\ late' = IF closing THEN late \cup {k} ELSE late
    /\ UNCHANGED <<rows, call, pbMu, committed, ticking, closing, attempts, outcome,
                   flushed, halfMarked, calls, crashes>>

\* Mutant: the map is written without the mutex.
BufferUnlocked(k, p) == Put(k, p)

BufferProgress(k, p) == pbMu = None /\ Put(k, p)

MayFlush(f) ==
    CASE f = "ticker"   -> ticking
      [] f = "manual"   -> TRUE
      [] f = "shutdown" -> closing /\ ~ticking /\ outcome = "up"

\* flush takes pb.mu for as long as its transaction runs.
FlushBegin(f) ==
    /\ pbMu = None
    /\ MayFlush(f)
    /\ \E k \in Keys : buffer[k] # None
    /\ pbMu' = f
    /\ committed' = FALSE
    /\ UNCHANGED <<rows, call, buffer, ticking, closing, attempts, outcome, flushed,
                   late, halfMarked, bounds>>

\* One transaction writes every buffered entry.
FlushCommit ==
    /\ pbMu # None /\ ~committed
    /\ rows' = [k \in Keys |->
            IF buffer[k] = None THEN rows[k] ELSE WriteProgress(rows[k], buffer[k])]
    /\ flushed' = [k \in Keys |-> IF buffer[k] = None THEN flushed[k] ELSE buffer[k]]
    /\ committed' = TRUE
    /\ UNCHANGED <<call, buffer, pbMu, ticking, closing, attempts, outcome, late,
                   halfMarked, bounds>>

Unlock == pbMu' = None /\ committed' = FALSE

\* Mutant: the ticker goroutine returns when its flush fails.
FlushFailEndsTicker ==
    /\ pbMu = "ticker" /\ ~committed
    /\ Unlock
    /\ ticking' = FALSE
    /\ UNCHANGED <<rows, call, buffer, closing, attempts, outcome, flushed, late,
                   halfMarked, bounds>>

\* Mutant: the shutdown gives up after a failed attempt without an error.
FlushFailIgnored ==
    /\ pbMu # None /\ ~committed
    /\ Unlock
    /\ outcome' = IF pbMu = "shutdown" THEN "clean" ELSE outcome
    /\ UNCHANGED <<rows, call, buffer, ticking, closing, attempts, flushed, late,
                   halfMarked, bounds>>

\* The transaction fails: nothing is written, everything stays buffered, and
\* the shutdown tries again until its attempts are spent.
FlushFail ==
    /\ pbMu # None /\ ~committed
    /\ Unlock
    /\ IF pbMu = "shutdown"
       THEN /\ attempts' = attempts + 1
            /\ outcome' = IF attempts' = FlushAttempts THEN "unpersisted" ELSE "up"
       ELSE UNCHANGED <<attempts, outcome>>
    /\ UNCHANGED <<rows, call, buffer, ticking, closing, flushed, late, halfMarked,
                   bounds>>

\* clear(pb.buffer) and unlock.
FlushClear ==
    /\ pbMu # None /\ committed
    /\ Unlock
    /\ buffer' = [k \in Keys |-> None]
    /\ outcome' = IF pbMu = "shutdown" THEN "clean" ELSE outcome
    /\ UNCHANGED <<rows, call, ticking, closing, attempts, flushed, late, halfMarked,
                   bounds>>

\* ShutdownProgressBuffer begins: ticker.Stop and close(done).
Shutdown ==
    /\ ~closing
    /\ closing' = TRUE
    /\ UNCHANGED <<rows, call, buffer, pbMu, committed, ticking, attempts, outcome,
                   flushed, late, halfMarked, bounds>>

\* The goroutine sees done, between two flushes, and closes finished.
TickerReturns ==
    /\ closing /\ ticking
    /\ pbMu # "ticker"
    /\ ticking' = FALSE
    /\ UNCHANGED <<rows, call, buffer, pbMu, committed, closing, attempts, outcome,
                   flushed, late, halfMarked, bounds>>

\* The shutdown finds an empty buffer: flush returns nil at once.
NothingToFlush ==
    /\ pbMu = None
    /\ MayFlush("shutdown")
    /\ \A k \in Keys : buffer[k] = None
    /\ outcome' = "clean"
    /\ UNCHANGED <<rows, call, buffer, pbMu, committed, ticking, closing, attempts,
                   flushed, late, halfMarked, bounds>>

\* The process dies and is started again.
Crash ==
    /\ crashes < MaxCrashes
    /\ crashes' = crashes + 1
    /\ halfMarked' = halfMarked \cup
            {call[c].key : c \in {d \in Callers : call[d] # None /\ call[d].at = "flagged"}}
    /\ call' = [c \in Callers |-> None]
    /\ buffer' = [k \in Keys |-> None]
    /\ pbMu' = None /\ committed' = FALSE
    /\ ticking' = TRUE /\ closing' = FALSE
    /\ attempts' = 0 /\ outcome' = "up"
    /\ late' = {}
    /\ UNCHANGED <<rows, flushed, calls, buffered>>

-----------------------------------------------------------------------------
Repository(c) ==
    \/ \E kind \in Kinds, k \in Keys : \E p \in Arguments(kind) : Read(c, kind, k, p)
    \/ Create(c) \/ Update(c) \/ CountPlay(c) \/ StatementFails(c) \/ Answer(c)

Next ==
    \/ \E c \in Callers : Repository(c)
    \/ \E k \in Keys : \E column \in {"is_played", "is_favorite"} : Toggle(k, column)
    \/ \E k \in Keys, p \in Positions, b \in BOOLEAN : Report(k, p, b)
    \/ \E k \in Keys, p \in Positions : BufferProgress(k, p)
    \/ \E f \in Flushers : FlushBegin(f)
    \/ FlushCommit \/ FlushFail \/ FlushClear
    \/ Shutdown \/ TickerReturns \/ NothingToFlush
    \/ Crash

Spec == Init /\ [][Next]_vars

(***************************************************************************)
(* The ticker keeps ticking and the shutdown, once begun, runs on; a       *)
(* transaction that is tried over and over does not fail for ever.  The    *)
(* administrator's flush and the callers owe nothing.  Strong fairness of  *)
(* FlushBegin: pb.mu is a Go mutex, which does not starve its waiters.     *)
(***************************************************************************)
Fairness ==
    /\ SF_vars(FlushBegin("ticker"))
    /\ SF_vars(FlushBegin("shutdown"))
    /\ SF_vars(FlushCommit)
    /\ WF_vars(FlushCommit \/ FlushFail)
    /\ WF_vars(FlushClear)
    /\ WF_vars(TickerReturns)
    /\ WF_vars(NothingToFlush)

FairSpec == Spec /\ Fairness

-----------------------------------------------------------------------------
TypeOK ==
    /\ rows \in [Keys -> Row \cup {None}]
    /\ call \in [Callers -> Call \cup {None}]
    /\ buffer \in [Keys -> Positions \cup {None}]
    /\ pbMu \in Flushers \cup {None}
    /\ committed \in BOOLEAN /\ ticking \in BOOLEAN /\ closing \in BOOLEAN
    /\ attempts \in 0 .. FlushAttempts
    /\ outcome \in {"up", "clean", "unpersisted"}
    /\ flushed \in [Keys -> Positions \cup {None}]
    /\ late \subseteq Keys
    /\ halfMarked \subseteq Keys
    /\ calls \in 0 .. MaxCalls /\ buffered \in 0 .. MaxBuffered
    /\ crashes \in 0 .. MaxCrashes

(***************************************************************************)
(* Refinement                                                              *)
(***************************************************************************)

InCall(k, places) ==
    {c \in Callers : /\ call[c] # None /\ call[c].kind = "played"
                     /\ call[c].key = k /\ call[c].at \in places}

\* A missing row is a blank entry, and a play counts from the statement that
\* sets the flag on.
EntryOf(k) ==
    IF rows[k] = None THEN [pos |-> 0, played |-> FALSE, count |-> 0, fav |-> FALSE]
    ELSE [rows[k] EXCEPT !.count = @ + Cardinality(InCall(k, {"flagged"}))]

Ledger == INSTANCE ProgressLedger WITH
    ledger  <- [k \in Keys |-> EntryOf(k)],
    unacked <- [k \in Keys |-> Cardinality(InCall(k, {"flagged", "done"}))]

\* The statements, the buffer and the goroutines together behave like the
\* one-entry-per-pair ledger: concurrent creations, upserts and flushes never
\* undo a flag or a count that another call has set, no play is counted
\* twice, and only unacknowledged plays can be lost.
ImplementsLedger == Ledger!Spec

(***************************************************************************)
(* Safety                                                                  *)
(***************************************************************************)

\* A row says played without ever having been counted only while the second
\* statement of MarkAsPlayed is outstanding, or after it failed or was cut
\* off by a crash.
PlayedIsCounted ==
    \A k \in Keys : rows[k] # None /\ rows[k].played /\ rows[k].count = 0
        => k \in halfMarked \/ InCall(k, {"flagged"}) # {}

\* An entry leaves the buffer only after a flush has committed exactly it:
\* neither a failed transaction nor a write that arrives during the flush
\* makes a buffered position vanish.
BufferedNotDropped ==
    [][\A k \in Keys : buffer[k] # None /\ buffer'[k] = None
            => flushed[k] = buffer[k] \/ Crash]_vars

\* When the shutdown ends without its error message, everything buffered
\* before it began has been persisted.
CleanShutdownDrains ==
    outcome = "clean" => \A k \in Keys : buffer[k] # None => k \in late

(***************************************************************************)
(* Liveness                                                                *)
(***************************************************************************)

\* What is buffered is eventually written (or replaced by what is), unless
\* the process dies or shuts down.
BufferedEventuallyWritten ==
    \A k \in Keys : buffer[k] # None ~> (buffer[k] = None \/ outcome # "up")

\* A shutdown that has begun ends: waiting for the ticker goroutine and for
\* pb.mu does not block it, whatever flush is under way.
ShutdownEnds == closing ~> (outcome # "up" \/ ~closing)

\* Nothing waits for ever in the buffer or for its lock: the two above.
BufferSettles == BufferedEventuallyWritten /\ ShutdownEnds
=============================================================================
