------------------------ MODULE ProgressStore_proofs ------------------------
(***************************************************************************)
(* What ProgressStore promises, proved for any pairs, positions, callers   *)
(* and bounds: the buffer loses nothing, and the statements implement      *)
(* ProgressLedger.                                                         *)
(***************************************************************************)
EXTENDS ProgressStore, FiniteSetTheorems, TLAPS

LEMMA NoneIsNothing ==
    None \notin Positions /\ None \notin Row /\ None \notin Call /\ None \notin Flushers
BY ConstantsAssumption

LEMMA PositionsAreNumbers == Positions \subseteq Nat \ {0}
BY ConstantsAssumption

(***************************************************************************)
(* Types                                                                   *)
(***************************************************************************)

\* A call that has found or made a row relies on it later, only
\* MarkAsPlayed has a second statement, and only a position comes with one.
CallsKnow ==
    \A c \in Callers : call[c] # None =>
        /\ call[c].at # "absent" => rows[call[c].key] # None
        /\ call[c].at = "flagged" => call[c].kind = "played"
        /\ call[c].kind = "position" => call[c].pos \in Positions

\* The shutdown flushes only until it is over, and while it has attempts left.
ShutdownRuns ==
    /\ outcome = "up" => attempts < FlushAttempts
    /\ outcome # "up" => closing /\ ~ticking
    /\ pbMu = "shutdown" => closing /\ ~ticking /\ outcome = "up"
    /\ pbMu = "ticker" => ticking

Typed == TypeOK /\ CallsKnow /\ ShutdownRuns

LEMMA NewRowType ==
    ASSUME NEW o \in Call PROVE NewRow(o.kind, o.pos) \in Row
BY ConstantsAssumption DEF NewRow, Row, Call, Kinds

LEMMA WriteProgressType ==
    ASSUME NEW row \in Row \cup {None}, NEW p \in Positions
    PROVE  WriteProgress(row, p) \in Row /\ Finished(WriteProgress(row, p)) \in Row
<1>1. WriteProgress(row, p) \in Row
  <2>1. CASE row = None
    BY <2>1 DEF WriteProgress, Row
  <2>2. CASE row \in Row /\ row # None
    BY <2>2 DEF WriteProgress, Row
  <2> QED BY <2>1, <2>2
<1>2. ASSUME NEW r \in Row PROVE Finished(r) \in Row
  <2>1. r.count + 1 \in Nat
    BY DEF Row
  <2>2. [r EXCEPT !.played = TRUE, !.count = @ + 1] \in Row
    BY <2>1 DEF Row
  <2> QED BY <2>2 DEF Finished
<1> QED BY <1>1, <1>2

LEMMA InitTyped == Init => Typed
<1> SUFFICES ASSUME Init PROVE Typed
    OBVIOUS
<1>1. /\ rows \in [Keys -> Row \cup {None}] /\ call \in [Callers -> Call \cup {None}]
      /\ buffer \in [Keys -> Positions \cup {None}] /\ flushed \in [Keys -> Positions \cup {None}]
    BY DEF Init
<1>3. 0 \in 0 .. FlushAttempts /\ 0 \in 0 .. MaxCalls /\ 0 \in 0 .. MaxBuffered /\ 0 \in 0 .. MaxCrashes
    BY ConstantsAssumption
<1>4. TypeOK
    BY <1>1, <1>3 DEF Init, TypeOK
<1>2. CallsKnow /\ ShutdownRuns
    BY ConstantsAssumption, NoneIsNothing DEF Init, CallsKnow, ShutdownRuns, Flushers
<1> QED BY <1>2, <1>4 DEF Typed

LEMMA CallerTyped ==
    ASSUME Typed, NEW c \in Callers, Repository(c)
    PROVE  Typed'
<1> USE DEF Typed
<1>1. ASSUME NEW kind \in Kinds, NEW k \in Keys, NEW p \in Arguments(kind), Read(c, kind, k, p)
      PROVE  Typed'
  <2> DEFINE o == [kind |-> kind, key |-> k, pos |-> p,
                   at |-> IF rows[k] = None THEN "absent" ELSE "present"]
  <2>1. o \in Call /\ calls' \in 0 .. MaxCalls
    BY <1>1, ConstantsAssumption DEF Read, Called, Call, Arguments, TypeOK
  <2>2. call' = [call EXCEPT ![c] = o]
    BY <1>1 DEF Read
  <2>3. TypeOK'
    BY <1>1, <2>1, <2>2 DEF Read, Called, TypeOK, bufferVars
  <2>4. CallsKnow'
    BY <1>1, <2>1, <2>2 DEF Read, CallsKnow, TypeOK, Arguments
  <2> QED BY <1>1, <2>3, <2>4 DEF Read, ShutdownRuns, bufferVars
<1>2. CASE Create(c)
  <2>1. call[c] \in Call /\ call[c].key \in Keys
    BY <1>2 DEF Create, TypeOK, Call
  <2>2. NewRow(call[c].kind, call[c].pos) \in Row
    BY <2>1, NewRowType
  <2>3. [call[c] EXCEPT !.at = "done"] \in Call
    BY <2>1 DEF Call
  <2>4. TypeOK'
    BY <1>2, <2>1, <2>2, <2>3 DEF Create, Return, Goto, TypeOK, bufferVars, bounds
  <2>5. CallsKnow'
    BY <1>2, <2>1, <2>2, NoneIsNothing DEF Create, Return, Goto, TypeOK, CallsKnow, Call
  <2> QED BY <1>2, <2>4, <2>5 DEF Create, ShutdownRuns, bufferVars
<1>3. CASE Update(c)
  <2>1. call[c] \in Call /\ call[c].key \in Keys /\ rows[call[c].key] \in Row
    BY <1>3 DEF Update, TypeOK, Call, CallsKnow
  <2>2. \A a \in {"flagged", "done"} : [call[c] EXCEPT !.at = a] \in Call
    BY <2>1 DEF Call
  <2>3. rows' \in [Keys -> Row \cup {None}] /\ \A k \in Keys : rows[k] # None => rows'[k] # None
    <3>1. CASE call[c].kind = "played"
      BY <1>3, <2>1, <3>1, NoneIsNothing DEF Update, TypeOK, Row
    <3>2. CASE call[c].kind = "favorite"
      BY <1>3, <2>1, <3>2, NoneIsNothing DEF Update, TypeOK, Row
    <3>3. CASE call[c].kind = "position"
      BY <1>3, <2>1, <3>3, NoneIsNothing DEF Update, TypeOK, Row, Call
    <3> QED BY <2>1, <3>1, <3>2, <3>3 DEF Call, Kinds
  <2>4. TypeOK'
    BY <1>3, <2>1, <2>2, <2>3 DEF Update, Goto, TypeOK, bufferVars, bounds
  <2>5. CallsKnow'
    BY <1>3, <2>1, <2>3 DEF Update, Goto, TypeOK, CallsKnow, Call
  <2> QED BY <1>3, <2>4, <2>5 DEF Update, ShutdownRuns, bufferVars
<1>4. CASE CountPlay(c)
  <2>1. call[c] \in Call /\ call[c].key \in Keys /\ rows[call[c].key] \in Row
    BY <1>4 DEF CountPlay, TypeOK, Call, CallsKnow
  <2>2. [call[c] EXCEPT !.at = "done"] \in Call
    BY <2>1 DEF Call
  <2>3. [rows[call[c].key] EXCEPT !.count = @ + 1] \in Row
    BY <2>1 DEF Row
  <2>4. TypeOK'
    BY <1>4, <2>1, <2>2, <2>3 DEF CountPlay, Goto, TypeOK, bufferVars, bounds
  <2>5. CallsKnow'
    BY <1>4, <2>1, <2>3, NoneIsNothing DEF CountPlay, Goto, TypeOK, CallsKnow, Call
  <2> QED BY <1>4, <2>4, <2>5 DEF CountPlay, ShutdownRuns, bufferVars
<1>5. CASE StatementFails(c)
  <2>1. call[c] \in Call /\ call[c].key \in Keys
    BY <1>5 DEF StatementFails, TypeOK, Call
  <2>2. TypeOK'
    BY <1>5, <2>1 DEF StatementFails, Return, TypeOK, bufferVars, bounds
  <2> QED BY <1>5, <2>2 DEF StatementFails, Return, TypeOK, CallsKnow, ShutdownRuns, bufferVars
<1>6. CASE Answer(c)
  <2>1. TypeOK'
    BY <1>6 DEF Answer, Return, TypeOK, bufferVars, bounds
  <2> QED BY <1>6, <2>1 DEF Answer, Return, TypeOK, CallsKnow, ShutdownRuns, bufferVars
<1> QED BY <1>1, <1>2, <1>3, <1>4, <1>5, <1>6 DEF Repository

LEMMA NextTyped == Typed /\ [Next]_vars => Typed'
<1> SUFFICES ASSUME Typed, [Next]_vars PROVE Typed'
    OBVIOUS
<1> USE DEF Typed
<1>1. ASSUME NEW c \in Callers, Repository(c) PROVE Typed'
    BY <1>1, CallerTyped
<1>2. ASSUME NEW k \in Keys, NEW column \in {"is_played", "is_favorite"}, Toggle(k, column)
      PROVE  Typed'
  <2>1. rows[k] \in Row
    BY <1>2 DEF Toggle, TypeOK
  <2>2. rows' \in [Keys -> Row \cup {None}] /\ \A l \in Keys : rows[l] # None => rows'[l] # None
    <3>1. CASE column = "is_played"
      BY <1>2, <2>1, <3>1, NoneIsNothing DEF Toggle, TypeOK, Row
    <3>2. CASE column = "is_favorite"
      BY <1>2, <2>1, <3>2, NoneIsNothing DEF Toggle, TypeOK, Row
    <3> QED BY <3>1, <3>2
  <2>3. TypeOK'
    BY <1>2, <2>2, ConstantsAssumption DEF Toggle, Called, TypeOK, bufferVars
  <2>4. CallsKnow'
    BY <1>2, <2>2 DEF Toggle, TypeOK, CallsKnow, Call
  <2> QED BY <1>2, <2>3, <2>4 DEF Toggle, ShutdownRuns, bufferVars
<1>3. ASSUME NEW k \in Keys, NEW p \in Positions, NEW b \in BOOLEAN, Report(k, p, b)
      PROVE  Typed'
  <2>1. rows' \in [Keys -> Row \cup {None}] /\ \A l \in Keys : rows[l] # None => rows'[l] # None
    BY <1>3, WriteProgressType, NoneIsNothing DEF Report, TypeOK
  <2>2. TypeOK'
    BY <1>3, <2>1, ConstantsAssumption DEF Report, Called, TypeOK, bufferVars
  <2>3. CallsKnow'
    BY <1>3, <2>1 DEF Report, TypeOK, CallsKnow, Call
  <2> QED BY <1>3, <2>2, <2>3 DEF Report, ShutdownRuns, bufferVars
<1>4. ASSUME NEW k \in Keys, NEW p \in Positions, BufferProgress(k, p) PROVE Typed'
  <2>1. TypeOK'
    BY <1>4, ConstantsAssumption DEF BufferProgress, Put, TypeOK
  <2> QED BY <1>4, <2>1 DEF BufferProgress, Put, CallsKnow, ShutdownRuns
<1>5. ASSUME NEW f \in Flushers, FlushBegin(f) PROVE Typed'
  <2>1. TypeOK'
    BY <1>5 DEF FlushBegin, TypeOK, bounds
  <2>2. ShutdownRuns'
    BY <1>5, NoneIsNothing DEF FlushBegin, MayFlush, ShutdownRuns, TypeOK, Flushers
  <2> QED BY <1>5, <2>1, <2>2 DEF FlushBegin, CallsKnow
<1>6. CASE FlushCommit
  <2>1. \A k \in Keys : buffer[k] # None => WriteProgress(rows[k], buffer[k]) \in Row
    BY WriteProgressType DEF TypeOK
  <2>2. rows' \in [Keys -> Row \cup {None}] /\ \A l \in Keys : rows[l] # None => rows'[l] # None
    BY <1>6, <2>1, NoneIsNothing DEF FlushCommit, TypeOK
  <2>3. TypeOK'
    BY <1>6, <2>2 DEF FlushCommit, TypeOK, bounds
  <2>4. CallsKnow'
    BY <1>6, <2>2 DEF FlushCommit, TypeOK, CallsKnow, Call
  <2> QED BY <1>6, <2>3, <2>4 DEF FlushCommit, ShutdownRuns
<1>7. CASE FlushFail
  <2>1. attempts' \in 0 .. FlushAttempts /\ outcome' \in {"up", "clean", "unpersisted"}
    BY <1>7, ConstantsAssumption DEF FlushFail, TypeOK, ShutdownRuns
  <2>3. TypeOK'
    BY <1>7, <2>1 DEF FlushFail, Unlock, TypeOK, bounds
  <2>2. ShutdownRuns'
    BY <1>7, ConstantsAssumption, NoneIsNothing DEF FlushFail, Unlock, TypeOK, ShutdownRuns, Flushers
  <2> QED BY <1>7, <2>2, <2>3 DEF FlushFail, CallsKnow
<1>8. CASE FlushClear
  <2>1. TypeOK'
    BY <1>8 DEF FlushClear, Unlock, TypeOK, bounds
  <2>2. ShutdownRuns'
    BY <1>8, NoneIsNothing DEF FlushClear, Unlock, TypeOK, ShutdownRuns, Flushers
  <2> QED BY <1>8, <2>1, <2>2 DEF FlushClear, CallsKnow
<1>9. CASE Shutdown
    BY <1>9 DEF Shutdown, TypeOK, CallsKnow, ShutdownRuns, bounds
<1>10. CASE TickerReturns
  <2>1. TypeOK'
    BY <1>10 DEF TickerReturns, TypeOK, bounds
  <2> QED BY <1>10, <2>1 DEF TickerReturns, CallsKnow, ShutdownRuns
<1>11. CASE NothingToFlush
    BY <1>11, NoneIsNothing DEF NothingToFlush, MayFlush, TypeOK, CallsKnow, ShutdownRuns, bounds, Flushers
<1>12. CASE Crash
  <2>1. \A d \in Callers : call[d] # None => call[d].key \in Keys
    BY DEF TypeOK, Call
  <2>2. halfMarked' \subseteq Keys /\ crashes' \in 0 .. MaxCrashes /\ attempts' \in 0 .. FlushAttempts
    BY <1>12, <2>1, ConstantsAssumption DEF Crash, TypeOK
  <2>3. TypeOK'
    BY <1>12, <2>2 DEF Crash, TypeOK
  <2> QED BY <1>12, <2>3, ConstantsAssumption, NoneIsNothing DEF Crash, CallsKnow, ShutdownRuns, Flushers
<1>13. CASE UNCHANGED vars
    BY <1>13 DEF vars, bufferVars, bounds, TypeOK, CallsKnow, ShutdownRuns
<1> QED BY <1>1, <1>2, <1>3, <1>4, <1>5, <1>6, <1>7, <1>8, <1>9, <1>10, <1>11, <1>12, <1>13
        DEF Next

\* Every variable has its type, and the shutdown never flushes after it has
\* given up or succeeded.
THEOREM TypeCorrect == Spec => [](TypeOK /\ ShutdownRuns)
<1>1. Typed => TypeOK /\ ShutdownRuns
    BY DEF Typed
<1> QED BY <1>1, InitTyped, NextTyped, PTL DEF Spec

(***************************************************************************)
(* The buffer                                                              *)
(***************************************************************************)

\* While a flush that has committed still holds the lock, the buffer holds
\* what it has written and nothing else.
FlushWrites ==
    committed => pbMu # None /\ \A k \in Keys : buffer[k] # None => flushed[k] = buffer[k]

\* What is needed of the flushes; the second conjunct says of a shutdown
\* that has succeeded what it leaves in the buffer.
Buffering == Typed /\ FlushWrites /\ CleanShutdownDrains

LEMMA InitBuffering == Init => Buffering
BY InitTyped DEF Init, Buffering, FlushWrites, CleanShutdownDrains

LEMMA NextBuffering == Buffering /\ [Next]_vars => Buffering'
<1> SUFFICES ASSUME Buffering, [Next]_vars PROVE FlushWrites' /\ CleanShutdownDrains'
    BY NextTyped DEF Buffering
<1> USE DEF Buffering, Typed
<1>1. ASSUME NEW c \in Callers, Repository(c) PROVE UNCHANGED bufferVars
    BY <1>1 DEF Repository, Read, Create, Update, CountPlay, StatementFails, Answer
<1>2. ASSUME NEW k \in Keys, NEW column \in {"is_played", "is_favorite"}, Toggle(k, column)
      PROVE  UNCHANGED bufferVars
    BY <1>2 DEF Toggle
<1>3. ASSUME NEW k \in Keys, NEW p \in Positions, NEW b \in BOOLEAN, Report(k, p, b)
      PROVE  UNCHANGED bufferVars
    BY <1>3 DEF Report
<1>4. CASE UNCHANGED bufferVars
    BY <1>4 DEF bufferVars, FlushWrites, CleanShutdownDrains
<1>5. ASSUME NEW k \in Keys, NEW p \in Positions, BufferProgress(k, p)
      PROVE  FlushWrites' /\ CleanShutdownDrains'
  <2>1. FlushWrites'
    BY <1>5 DEF BufferProgress, Put, FlushWrites
  <2>2. ASSUME outcome' = "clean", NEW j \in Keys, buffer'[j] # None PROVE j \in late'
    <3>1. outcome = "clean" /\ late' = late \cup {k} /\ buffer' = [buffer EXCEPT ![k] = p]
      BY <1>5, <2>2 DEF BufferProgress, Put, ShutdownRuns
    <3>2. buffer \in [Keys -> Positions \cup {None}]
      BY DEF TypeOK
    <3>3. CASE j = k
      BY <3>1, <3>3
    <3>4. CASE j # k
      <4>1. buffer'[j] = buffer[j]
        BY <3>1, <3>2, <3>4
      <4> QED BY <4>1, <3>1, <2>2 DEF CleanShutdownDrains
    <3> QED BY <3>3, <3>4
  <2> QED BY <2>1, <2>2 DEF CleanShutdownDrains
<1>6. ASSUME NEW f \in Flushers, FlushBegin(f) PROVE FlushWrites' /\ CleanShutdownDrains'
    BY <1>6 DEF FlushBegin, FlushWrites, CleanShutdownDrains
<1>7. CASE FlushCommit
    BY <1>7 DEF FlushCommit, FlushWrites, CleanShutdownDrains, TypeOK
<1>8. CASE FlushFail
    BY <1>8 DEF FlushFail, Unlock, FlushWrites, CleanShutdownDrains
<1>9. CASE FlushClear
    BY <1>9 DEF FlushClear, Unlock, FlushWrites, CleanShutdownDrains
<1>10. CASE Shutdown \/ TickerReturns
    BY <1>10 DEF Shutdown, TickerReturns, FlushWrites, CleanShutdownDrains
<1>11. CASE NothingToFlush
    BY <1>11 DEF NothingToFlush, FlushWrites, CleanShutdownDrains
<1>12. CASE Crash
    BY <1>12 DEF Crash, FlushWrites, CleanShutdownDrains
<1>13. CASE UNCHANGED vars
    BY <1>13, <1>4 DEF vars
<1> QED BY <1>1, <1>2, <1>3, <1>4, <1>5, <1>6, <1>7, <1>8, <1>9, <1>10, <1>11, <1>12, <1>13
        DEF Next

LEMMA BufferingHolds == Spec => []Buffering
BY InitBuffering, NextBuffering, PTL DEF Spec

\* A shutdown that ends without its error has written everything that was
\* buffered before it began.
THEOREM ShutdownDrains == Spec => []CleanShutdownDrains
BY BufferingHolds, PTL DEF Buffering

\* Only a flush that has committed an entry takes it out of the buffer, or a
\* crash.
THEOREM NothingIsDropped == Spec => BufferedNotDropped
<1> DEFINE Kept == \A k \in Keys : buffer[k] # None /\ buffer'[k] = None
                        => flushed[k] = buffer[k] \/ Crash
<1>1. Buffering /\ [Next]_vars => [Kept]_vars
  <2> SUFFICES ASSUME Buffering, Next, ~Crash,
                      NEW k \in Keys, buffer[k] # None, buffer'[k] = None
               PROVE  flushed[k] = buffer[k]
    OBVIOUS
  <2>1. ASSUME NEW c \in Callers, Repository(c) PROVE buffer' = buffer
    BY <2>1 DEF Repository, Read, Create, Update, CountPlay, StatementFails, Answer, bufferVars
  <2>2. ASSUME NEW l \in Keys, NEW column \in {"is_played", "is_favorite"}, Toggle(l, column)
        PROVE  buffer' = buffer
    BY <2>2 DEF Toggle, bufferVars
  <2>3. ASSUME NEW l \in Keys, NEW p \in Positions, NEW b \in BOOLEAN, Report(l, p, b)
        PROVE  buffer' = buffer
    BY <2>3 DEF Report, bufferVars
  <2>4. ASSUME NEW l \in Keys, NEW p \in Positions, BufferProgress(l, p)
        PROVE  buffer'[k] # None
    BY <2>4, NoneIsNothing DEF BufferProgress, Put, Buffering, Typed, TypeOK
  <2>5. ASSUME FlushClear PROVE flushed[k] = buffer[k]
    BY <2>5 DEF FlushClear, Buffering, FlushWrites
  <2>6. ASSUME \/ \E f \in Flushers : FlushBegin(f)
               \/ FlushCommit \/ FlushFail \/ Shutdown \/ TickerReturns \/ NothingToFlush
        PROVE  buffer' = buffer
    BY <2>6 DEF FlushBegin, FlushCommit, FlushFail, Shutdown, TickerReturns, NothingToFlush
  <2> QED BY <2>1, <2>2, <2>3, <2>4, <2>5, <2>6 DEF Next
<1> QED BY <1>1, BufferingHolds, PTL DEF Spec, BufferedNotDropped

(***************************************************************************)
(* The refinement of ProgressLedger.  Every step is a step of the ledger   *)
(* or leaves it alone, seen through the mapping of ProgressStore: a play   *)
(* counts from the statement that sets the flag, and a call is             *)
(* acknowledged when it answers.                                           *)
(***************************************************************************)

Counted(o, k, places) ==
    o # None /\ o.kind = "played" /\ o.key = k /\ o.at \in places

Flagged(k) == Cardinality(InCall(k, {"flagged"}))
Open(k) == Cardinality(InCall(k, {"flagged", "done"}))

LEMMA CallsFinite ==
    \A k, places : /\ IsFiniteSet(InCall(k, places))
                   /\ Cardinality(InCall(k, places)) \in Nat
<1> SUFFICES ASSUME NEW k, NEW places
             PROVE  IsFiniteSet(InCall(k, places)) /\ Cardinality(InCall(k, places)) \in Nat
    OBVIOUS
<1>1. IsFiniteSet(Callers) /\ InCall(k, places) \in SUBSET Callers
    BY ConstantsAssumption DEF InCall
<1>2. IsFiniteSet(InCall(k, places))
    BY <1>1, FS_Subset
<1> QED BY <1>2, FS_CardinalityType

\* How the calls counted for a pair change when one call does.
LEMMA OneCallChanges ==
    ASSUME call \in [Callers -> Call \cup {None}], NEW c \in Callers, NEW v,
           call' = [call EXCEPT ![c] = v], NEW k, NEW places
    PROVE  /\ (Counted(v, k, places) <=> Counted(call[c], k, places))
                => Cardinality(InCall(k, places))' = Cardinality(InCall(k, places))
           /\ Counted(v, k, places) /\ ~Counted(call[c], k, places)
                => Cardinality(InCall(k, places))' = Cardinality(InCall(k, places)) + 1
           /\ ~Counted(v, k, places) /\ Counted(call[c], k, places)
                => /\ Cardinality(InCall(k, places))' = Cardinality(InCall(k, places)) - 1
                   /\ Cardinality(InCall(k, places)) > 0
<1> DEFINE S == InCall(k, places)
<1>1. S = {d \in Callers : Counted(call[d], k, places)}
    BY DEF InCall, Counted
<1>2. S' = {d \in Callers : Counted(call'[d], k, places)}
    BY DEF InCall, Counted
<1>3. call'[c] = v /\ \A d \in Callers \ {c} : call'[d] = call[d]
    OBVIOUS
<1>4. IsFiniteSet(S) /\ Cardinality(S) \in Nat
    BY CallsFinite
<1> HIDE DEF S
<1>5. CASE Counted(v, k, places) <=> Counted(call[c], k, places)
  <2>1. S' = S
    BY <1>1, <1>2, <1>3, <1>5
  <2> QED BY <2>1, <1>5 DEF S
<1>6. CASE Counted(v, k, places) /\ ~Counted(call[c], k, places)
  <2>1. S' = S \cup {c} /\ c \notin S
    BY <1>1, <1>2, <1>3, <1>6
  <2>2. Cardinality(S') = Cardinality(S) + 1
    BY <2>1, <1>4, FS_AddElement
  <2> QED BY <2>2, <1>6 DEF S
<1>7. CASE ~Counted(v, k, places) /\ Counted(call[c], k, places)
  <2>1. S' = S \ {c} /\ c \in S
    BY <1>1, <1>2, <1>3, <1>7
  <2>2. Cardinality(S') = Cardinality(S) - 1
    BY <2>1, <1>4, FS_RemoveElement
  <2>3. Cardinality(S) # 0
    BY <2>1, <1>4, FS_EmptySet
  <2> QED BY <2>2, <2>3, <1>4, <1>7 DEF S
<1> QED BY <1>5, <1>6, <1>7

\* EntryOf as a function of the row and of the flagged calls.
Entry(r, n) == IF r = None THEN Ledger!Blank ELSE [r EXCEPT !.count = @ + n]
EntryType == [pos : Positions \cup {0}, played : BOOLEAN, count : Nat, fav : BOOLEAN]

LEMMA EntryIs ==
    \A k : /\ EntryOf(k) = Entry(rows[k], Flagged(k))
           /\ EntryOf(k)' = Entry(rows'[k], Flagged(k)')
BY DEF EntryOf, Entry, Flagged, Ledger!Blank

LEMMA EntryFields ==
    ASSUME NEW r \in Row, NEW n \in Nat
    PROVE  Entry(r, n) = [pos |-> r.pos, played |-> r.played, count |-> r.count + n,
                          fav |-> r.fav]
BY NoneIsNothing DEF Entry, Row

LEMMA SameFields ==
    ASSUME NEW d \in EntryType, NEW e \in EntryType,
           d.pos = e.pos, d.played = e.played, d.count = e.count, d.fav = e.fav
    PROVE  d = e
BY DEF EntryType

\* A record with some of its fields replaced.
LEMMA Replaced ==
    ASSUME NEW e \in EntryType, NEW p \in Positions \cup {0}, NEW b \in BOOLEAN, NEW x \in Nat
    PROVE  /\ [e EXCEPT !.played = b]
                = [pos |-> e.pos, played |-> b, count |-> e.count, fav |-> e.fav]
           /\ [e EXCEPT !.played = b, !.count = x]
                = [pos |-> e.pos, played |-> b, count |-> x, fav |-> e.fav]
           /\ [e EXCEPT !.pos = p, !.played = b, !.count = x]
                = [pos |-> p, played |-> b, count |-> x, fav |-> e.fav]
<1>1. [e EXCEPT !.played = b]
        = [pos |-> e.pos, played |-> b, count |-> e.count, fav |-> e.fav]
    BY DEF EntryType
<1>2. [e EXCEPT !.played = b, !.count = x]
        = [pos |-> e.pos, played |-> b, count |-> x, fav |-> e.fav]
  <2> DEFINE d == [e EXCEPT !.played = b, !.count = x]
  <2>1. d \in EntryType
    BY DEF EntryType
  <2>2. d.pos = e.pos /\ d.played = b /\ d.count = x /\ d.fav = e.fav
    BY DEF EntryType
  <2>3. [pos |-> e.pos, played |-> b, count |-> x, fav |-> e.fav] \in EntryType
    BY DEF EntryType
  <2> HIDE DEF d
  <2>4. d = [pos |-> e.pos, played |-> b, count |-> x, fav |-> e.fav]
    BY <2>1, <2>2, <2>3, SameFields
  <2> QED BY <2>4 DEF d
<1>3. [e EXCEPT !.pos = p, !.played = b, !.count = x]
        = [pos |-> p, played |-> b, count |-> x, fav |-> e.fav]
  <2> DEFINE d == [e EXCEPT !.pos = p, !.played = b, !.count = x]
  <2>1. d \in EntryType
    BY DEF EntryType
  <2>2. d.pos = p /\ d.played = b /\ d.count = x /\ d.fav = e.fav
    BY DEF EntryType
  <2>3. [pos |-> p, played |-> b, count |-> x, fav |-> e.fav] \in EntryType
    BY DEF EntryType
  <2> HIDE DEF d
  <2>4. d = [pos |-> p, played |-> b, count |-> x, fav |-> e.fav]
    BY <2>1, <2>2, <2>3, SameFields
  <2> QED BY <2>4 DEF d
<1> QED BY <1>1, <1>2, <1>3

LEMMA ReplacedFavorite ==
    ASSUME NEW e \in EntryType, NEW b \in BOOLEAN
    PROVE  [e EXCEPT !.fav = b]
                = [pos |-> e.pos, played |-> e.played, count |-> e.count, fav |-> b]
BY DEF EntryType

LEMMA EntryTyped == ASSUME TypeOK, NEW k \in Keys PROVE EntryOf(k) \in EntryType
<1>1. EntryOf(k) = Entry(rows[k], Flagged(k)) /\ Flagged(k) \in Nat
    BY EntryIs, CallsFinite DEF Flagged
<1>2. CASE rows[k] = None
    BY <1>1, <1>2 DEF Entry, EntryType, Ledger!Blank
<1>3. CASE rows[k] # None
  <2>1. rows[k] \in Row
    BY <1>3 DEF TypeOK
  <2>2. rows[k].count + Flagged(k) \in Nat
    BY <2>1, <1>1 DEF Row
  <2> QED BY <1>1, <2>1, <2>2, EntryFields DEF Row, EntryType
<1> QED BY <1>2, <1>3

\* What the statements do to a row, they do to its entry.
LEMMA EntrySteps ==
    ASSUME NEW r \in Row, NEW n \in Nat
    PROVE  /\ Entry([r EXCEPT !.played = TRUE], n + 1)
                = [Entry(r, n) EXCEPT !.played = TRUE, !.count = @ + 1]
           /\ Entry([r EXCEPT !.played = FALSE], n) = [Entry(r, n) EXCEPT !.played = FALSE]
           /\ \A b \in BOOLEAN : Entry([r EXCEPT !.fav = b], n) = [Entry(r, n) EXCEPT !.fav = b]
           /\ n > 0 => Entry([r EXCEPT !.count = @ + 1], n - 1) = Entry(r, n)
<1>1. /\ r.count \in Nat /\ r.played \in BOOLEAN /\ r.fav \in BOOLEAN
      /\ r.pos \in Positions \cup {0}
      /\ r = [pos |-> r.pos, played |-> r.played, count |-> r.count, fav |-> r.fav]
    BY DEF Row
<1>2. /\ \A b \in BOOLEAN : [r EXCEPT !.played = b] \in Row
      /\ \A b \in BOOLEAN : [r EXCEPT !.fav = b] \in Row
      /\ \A p \in Positions : [r EXCEPT !.pos = p] \in Row
    BY DEF Row
<1>3. [r EXCEPT !.count = @ + 1] \in Row
    BY <1>1 DEF Row
<1>4. ASSUME NEW b \in BOOLEAN, NEW m \in Nat
      PROVE  Entry([r EXCEPT !.played = b], m)
                = [pos |-> r.pos, played |-> b, count |-> r.count + m, fav |-> r.fav]
  <2> DEFINE d == [r EXCEPT !.played = b]
  <2>1. d \in Row /\ d.pos = r.pos /\ d.played = b /\ d.count = r.count /\ d.fav = r.fav
    BY <1>2 DEF Row
  <2> HIDE DEF d
  <2>2. Entry(d, m) = [pos |-> r.pos, played |-> b, count |-> r.count + m, fav |-> r.fav]
    BY <2>1, EntryFields
  <2> QED BY <2>2 DEF d
<1>5. ASSUME NEW b \in BOOLEAN
      PROVE  Entry([r EXCEPT !.played = b], n) = [Entry(r, n) EXCEPT !.played = b]
    BY <1>4, EntryFields
<1>6. ASSUME NEW b \in BOOLEAN
      PROVE  Entry([r EXCEPT !.fav = b], n) = [Entry(r, n) EXCEPT !.fav = b]
    BY <1>1, <1>2, EntryFields
<1>8. ASSUME n > 0 PROVE Entry([r EXCEPT !.count = @ + 1], n - 1) = Entry(r, n)
  <2>1. n - 1 \in Nat /\ (r.count + 1) + (n - 1) = r.count + n
    BY <1>1, <1>8
  <2>2. Entry([r EXCEPT !.count = @ + 1], n - 1)
            = [pos |-> r.pos, played |-> r.played, count |-> (r.count + 1) + (n - 1),
               fav |-> r.fav]
    BY <1>1, <1>3, <2>1, EntryFields
  <2> QED BY <2>1, <2>2, EntryFields
<1>10. (r.count + n) + 1 = r.count + (n + 1) /\ n + 1 \in Nat
    BY <1>1
<1>11. [Entry(r, n) EXCEPT !.played = TRUE, !.count = @ + 1]
        = [pos |-> r.pos, played |-> TRUE, count |-> (r.count + n) + 1, fav |-> r.fav]
  <2>1. Entry(r, n) = [pos |-> r.pos, played |-> r.played, count |-> r.count + n,
                       fav |-> r.fav]
    BY EntryFields
  <2> DEFINE e == Entry(r, n)
             x == e.count + 1
  <2>2. e \in EntryType /\ x \in Nat /\ x = (r.count + n) + 1
    BY <1>1, <2>1 DEF EntryType
  <2>3. e.pos = r.pos /\ e.fav = r.fav
    BY <2>1
  <2> HIDE DEF e, x
  <2>4. [e EXCEPT !.played = TRUE, !.count = x]
            = [pos |-> e.pos, played |-> TRUE, count |-> x, fav |-> e.fav]
    BY <2>2, Replaced DEF EntryType
  <2> QED BY <2>2, <2>3, <2>4 DEF e, x
<1>12. Entry([r EXCEPT !.played = TRUE], n + 1)
        = [Entry(r, n) EXCEPT !.played = TRUE, !.count = @ + 1]
    BY <1>4, <1>10, <1>11
<1> QED BY <1>5, <1>6, <1>8, <1>12

LEMMA EntryMoves ==
    ASSUME NEW r \in Row, NEW n \in Nat, NEW p \in Positions
    PROVE  Entry([r EXCEPT !.pos = p], n) = [Entry(r, n) EXCEPT !.pos = p]
<1>1. [r EXCEPT !.pos = p] \in Row
    BY DEF Row
<1> QED BY <1>1, EntryFields DEF Row

LEMMA EntryLoses ==
    ASSUME NEW r \in Row, NEW n \in Nat, NEW m \in 0 .. n
    PROVE  Entry(r, n - m) = [Entry(r, n) EXCEPT !.count = @ - m]
<1>1. n - m \in Nat /\ r.count + (n - m) = (r.count + n) - m
    BY DEF Row
<1> QED BY <1>1, EntryFields

\* The upsert of a position, and that of a finished viewing.
LEMMA WrittenFields ==
    ASSUME NEW r \in Row \cup {None}, NEW n \in Nat, r = None => n = 0, NEW p \in Positions
    PROVE  /\ WriteProgress(r, p) \in Row /\ Finished(WriteProgress(r, p)) \in Row
           /\ WriteProgress(r, p).pos = p
           /\ WriteProgress(r, p).played = Entry(r, n).played
           /\ WriteProgress(r, p).count \in Nat
           /\ WriteProgress(r, p).count + n = Entry(r, n).count
           /\ WriteProgress(r, p).fav = Entry(r, n).fav
           /\ Entry(r, n) \in EntryType
<1> DEFINE w == WriteProgress(r, p)
           e == Entry(r, n)
<1>1. w \in Row /\ Finished(w) \in Row
    BY WriteProgressType
<1>2. /\ w.pos = p /\ w.played = e.played /\ w.count + n = e.count /\ w.fav = e.fav
      /\ w.count \in Nat /\ e \in EntryType
  <2>1. CASE r = None
    BY <2>1 DEF WriteProgress, Entry, EntryType, Ledger!Blank
  <2>2. CASE r \in Row /\ r # None
    BY <2>2, EntryFields DEF WriteProgress, Row, EntryType
  <2> QED BY <2>1, <2>2
<1> HIDE DEF w, e
<1>3. w \in Row /\ Finished(w) \in Row /\ w.pos = p /\ w.played = e.played
      /\ w.count \in Nat /\ w.count + n = e.count /\ w.fav = e.fav /\ e \in EntryType
    BY <1>1, <1>2
<1> QED BY <1>3 DEF w, e

LEMMA EntryReported ==
    ASSUME NEW r \in Row \cup {None}, NEW n \in Nat, r = None => n = 0, NEW p \in Positions
    PROVE  Entry(WriteProgress(r, p), n) = [Entry(r, n) EXCEPT !.pos = p]
<1> DEFINE w == WriteProgress(r, p)
           e == Entry(r, n)
<1>1. /\ w \in Row /\ w.pos = p /\ w.played = e.played /\ w.count + n = e.count
      /\ w.fav = e.fav /\ e \in EntryType
    BY WrittenFields
<1>2. Entry(w, n) = [pos |-> p, played |-> e.played, count |-> e.count, fav |-> e.fav]
    BY <1>1, EntryFields
<1> QED BY <1>1, <1>2 DEF EntryType

LEMMA EntryFinished ==
    ASSUME NEW r \in Row \cup {None}, NEW n \in Nat, r = None => n = 0, NEW p \in Positions
    PROVE  Entry(Finished(WriteProgress(r, p)), n)
                = [Entry(r, n) EXCEPT !.pos = p, !.played = TRUE,
                        !.count = IF Entry(r, n).played THEN @ ELSE @ + 1]
<1> DEFINE w == WriteProgress(r, p)
           e == Entry(r, n)
<1>1. w \in Row /\ Finished(w) \in Row
    BY WrittenFields
<1>2. /\ w.pos = p /\ w.played = e.played /\ w.count + n = e.count /\ w.fav = e.fav
      /\ w.count \in Nat /\ e \in EntryType
    BY WrittenFields
<1>3. Entry(w, n) = [pos |-> p, played |-> e.played, count |-> e.count, fav |-> e.fav]
    BY <1>1, <1>2, EntryFields
<1>5. CASE e.played
  <2>1. Finished(w) = w
    BY <1>2, <1>5 DEF Finished
  <2>2. [e EXCEPT !.pos = p, !.played = TRUE, !.count = IF e.played THEN @ ELSE @ + 1]
            = [pos |-> p, played |-> TRUE, count |-> e.count, fav |-> e.fav]
    <3>1. e.count \in Nat
      BY <1>2 DEF EntryType
    <3> HIDE DEF e
    <3>2. [e EXCEPT !.pos = p, !.played = TRUE, !.count = e.count]
            = [pos |-> p, played |-> TRUE, count |-> e.count, fav |-> e.fav]
      BY <1>2, <3>1, Replaced
    <3> QED BY <1>5, <3>2
  <2>3. w.played \in BOOLEAN
    BY <1>1 DEF Row
  <2>4. e.played = TRUE
    BY <1>2, <1>5, <2>3
  <2> QED BY <1>3, <2>1, <2>2, <2>4
<1>6. CASE ~e.played
  <2>1. Finished(w) = [w EXCEPT !.played = TRUE, !.count = @ + 1]
    BY <1>2, <1>6 DEF Finished
  <2>2. Entry(Finished(w), n)
            = [pos |-> p, played |-> TRUE, count |-> (w.count + 1) + n, fav |-> e.fav]
    <3>1. w \in EntryType /\ w.count + 1 \in Nat
      BY <1>1 DEF Row, EntryType
    <3> HIDE DEF w
    <3>2. Finished(w) = [pos |-> p, played |-> TRUE, count |-> w.count + 1, fav |-> e.fav]
      BY <1>2, <2>1, <3>1, Replaced
    <3>3. Finished(w).pos = p /\ Finished(w).played = TRUE /\ Finished(w).count = w.count + 1
          /\ Finished(w).fav = e.fav
      BY <3>2
    <3> QED BY <1>1, <3>3, EntryFields
  <2>3. (w.count + 1) + n = e.count + 1
    BY <1>2
  <2>4. [e EXCEPT !.pos = p, !.played = TRUE, !.count = IF e.played THEN @ ELSE @ + 1]
            = [pos |-> p, played |-> TRUE, count |-> e.count + 1, fav |-> e.fav]
    <3> DEFINE x == e.count + 1
    <3>1. x \in Nat /\ TRUE \in BOOLEAN /\ p \in Positions \cup {0}
      BY <1>2 DEF EntryType
    <3> HIDE DEF e, x
    <3>2. [e EXCEPT !.pos = p, !.played = TRUE, !.count = x]
            = [pos |-> p, played |-> TRUE, count |-> x, fav |-> e.fav]
      BY <1>2, <3>1, Replaced
    <3> QED BY <1>6, <3>2 DEF x
  <2> QED BY <2>2, <2>3, <2>4
<1> QED BY <1>5, <1>6

\* An action of the ledger, read off the one pair it changes.
LEMMA OnePairSteps ==
    ASSUME NEW k \in Keys, \A j \in Keys \ {k} : EntryOf(j)' = EntryOf(j) /\ Open(j)' = Open(j)
    PROVE  /\ EntryOf(k)' = EntryOf(k) /\ Open(k)' = Open(k) => UNCHANGED Ledger!lvars
           /\ /\ EntryOf(k)' = [EntryOf(k) EXCEPT !.played = TRUE, !.count = @ + 1]
              /\ Open(k)' = Open(k) + 1
              => Ledger!MarkPlayed(k)
           /\ EntryOf(k)' = EntryOf(k) /\ Open(k) > 0 /\ Open(k)' = Open(k) - 1
                => Ledger!AcknowledgePlay(k)
           /\ /\ EntryOf(k)' = [EntryOf(k) EXCEPT !.count = @ - 1]
              /\ Open(k) > 0 /\ Open(k)' = Open(k) - 1
              => Ledger!LosePlay(k)
           /\ EntryOf(k)' = [EntryOf(k) EXCEPT !.played = FALSE] /\ Open(k)' = Open(k)
                => Ledger!UnmarkPlayed(k)
           /\ \A b \in BOOLEAN :
                EntryOf(k)' = [EntryOf(k) EXCEPT !.fav = b] /\ Open(k)' = Open(k)
                    => Ledger!SetFavorite(k, b)
           /\ \A p \in Positions :
                /\ EntryOf(k)' = [EntryOf(k) EXCEPT !.pos = p, !.played = TRUE,
                                    !.count = IF EntryOf(k).played THEN @ ELSE @ + 1]
                /\ Open(k)' = Open(k)
                => Ledger!CompleteAt(k, p)
<1> DEFINE L == [j \in Keys |-> EntryOf(j)]
           U == [j \in Keys |-> Open(j)]
<1>1. L' = [L EXCEPT ![k] = EntryOf(k)'] /\ L[k] = EntryOf(k)
    OBVIOUS
<1>2. U' = [U EXCEPT ![k] = Open(k)'] /\ U[k] = Open(k)
    OBVIOUS
<1>3. ASSUME EntryOf(k)' = EntryOf(k) PROVE L' = L
    BY <1>1, <1>3
<1>4. ASSUME Open(k)' = Open(k) PROVE U' = U
    BY <1>2, <1>4
<1>5. UNCHANGED Ledger!lvars <=> L' = L /\ U' = U
    BY DEF Ledger!lvars, Open
<1> QED BY <1>1, <1>2, <1>3, <1>4, <1>5
        DEF Open, Ledger!MarkPlayed, Ledger!AcknowledgePlay, Ledger!LosePlay,
            Ledger!UnmarkPlayed, Ledger!SetFavorite, Ledger!CompleteAt

\* Positions alone move.
LEMMA PositionSteps ==
    ASSUME TypeOK,
           \A k \in Keys : /\ Open(k)' = Open(k)
                           /\ \/ EntryOf(k)' = EntryOf(k)
                              \/ \E p \in Positions \cup {0} :
                                    /\ p \in Positions \/ p = EntryOf(k).pos
                                    /\ EntryOf(k)' = [EntryOf(k) EXCEPT !.pos = p]
    PROVE  Ledger!SetPositions
<1>1. ASSUME NEW k \in Keys
      PROVE  \E p \in Positions \cup {EntryOf(k).pos} :
                EntryOf(k)' = [EntryOf(k) EXCEPT !.pos = p]
  <2>1. CASE EntryOf(k)' = EntryOf(k)
    <3> DEFINE e == EntryOf(k)
    <3>1. e \in EntryType
      BY EntryTyped
    <3>2. e = [e EXCEPT !.pos = e.pos]
      BY <3>1 DEF EntryType
    <3> QED BY <2>1, <3>2
  <2> QED BY <2>1
<1> QED BY <1>1 DEF Open, Ledger!SetPositions

LEMMA NoRowNotFlagged ==
    ASSUME CallsKnow, NEW k \in Keys, rows[k] = None PROVE Flagged(k) = 0
<1>1. InCall(k, {"flagged"}) = {}
    BY DEF CallsKnow, InCall
<1> QED BY <1>1, FS_EmptySet DEF Flagged

\* A call moves on: what becomes of the flagged and of the open plays.
LEMMA CallMoves ==
    ASSUME TypeOK, NEW c \in Callers, NEW v, call' = [call EXCEPT ![c] = v], NEW k
    PROVE  /\ (Counted(v, k, {"flagged"}) <=> Counted(call[c], k, {"flagged"}))
                => Flagged(k)' = Flagged(k)
           /\ Counted(v, k, {"flagged"}) /\ ~Counted(call[c], k, {"flagged"})
                => Flagged(k)' = Flagged(k) + 1
           /\ ~Counted(v, k, {"flagged"}) /\ Counted(call[c], k, {"flagged"})
                => Flagged(k)' = Flagged(k) - 1 /\ Flagged(k) > 0
           /\ (Counted(v, k, {"flagged", "done"}) <=> Counted(call[c], k, {"flagged", "done"}))
                => Open(k)' = Open(k)
           /\ Counted(v, k, {"flagged", "done"}) /\ ~Counted(call[c], k, {"flagged", "done"})
                => Open(k)' = Open(k) + 1
           /\ ~Counted(v, k, {"flagged", "done"}) /\ Counted(call[c], k, {"flagged", "done"})
                => Open(k)' = Open(k) - 1 /\ Open(k) > 0
<1>1. call \in [Callers -> Call \cup {None}]
    BY DEF TypeOK
<1> DEFINE Moves(places) ==
        /\ (Counted(v, k, places) <=> Counted(call[c], k, places))
             => Cardinality(InCall(k, places))' = Cardinality(InCall(k, places))
        /\ Counted(v, k, places) /\ ~Counted(call[c], k, places)
             => Cardinality(InCall(k, places))' = Cardinality(InCall(k, places)) + 1
        /\ ~Counted(v, k, places) /\ Counted(call[c], k, places)
             => /\ Cardinality(InCall(k, places))' = Cardinality(InCall(k, places)) - 1
                /\ Cardinality(InCall(k, places)) > 0
<1>2. \A places : Moves(places)
    BY <1>1, OneCallChanges
<1>3. Moves({"flagged"}) /\ Moves({"flagged", "done"})
    BY <1>2
<1> QED BY <1>3 DEF Flagged, Open

\* The pairs whose row and flagged calls stay as they are keep their entry.
LEMMA EntryKept ==
    ASSUME NEW k, rows'[k] = rows[k], Flagged(k)' = Flagged(k)
    PROVE  EntryOf(k)' = EntryOf(k)
BY EntryIs

LEMMA NumbersOfCalls == \A k : Flagged(k) \in Nat /\ Open(k) \in Nat
BY CallsFinite DEF Flagged, Open

\* A call that neither was nor becomes a play that counts.
LEMMA CallUnseen ==
    ASSUME TypeOK, NEW c \in Callers, NEW v, call' = [call EXCEPT ![c] = v],
           \A j : /\ Counted(v, j, {"flagged"}) <=> Counted(call[c], j, {"flagged"})
                  /\ Counted(v, j, {"flagged", "done"})
                        <=> Counted(call[c], j, {"flagged", "done"})
    PROVE  \A j : Flagged(j)' = Flagged(j) /\ Open(j)' = Open(j)
BY CallMoves

LEMMA ReadRefines ==
    ASSUME Typed, NEW c \in Callers, NEW kind \in Kinds, NEW k \in Keys,
           NEW p \in Arguments(kind), Read(c, kind, k, p)
    PROVE  UNCHANGED Ledger!lvars
<1> DEFINE v == [kind |-> kind, key |-> k, pos |-> p,
                 at |-> IF rows[k] = None THEN "absent" ELSE "present"]
<1>1. call[c] = None /\ call' = [call EXCEPT ![c] = v] /\ rows' = rows
    BY DEF Read
<1>2. \A j : /\ ~Counted(v, j, {"flagged"}) /\ ~Counted(v, j, {"flagged", "done"})
             /\ ~Counted(call[c], j, {"flagged"}) /\ ~Counted(call[c], j, {"flagged", "done"})
    BY <1>1 DEF Counted
<1> HIDE DEF v
<1>3. \A j : Flagged(j)' = Flagged(j) /\ Open(j)' = Open(j)
    BY <1>1, <1>2, CallUnseen DEF Typed
<1>4. \A j \in Keys : EntryOf(j)' = EntryOf(j) /\ Open(j)' = Open(j)
    BY <1>1, <1>3, EntryKept
<1> QED BY <1>4, OnePairSteps

\* An insertion that the primary key rejects changes nothing; any other is
\* the ledger's operation on a blank entry.
LEMMA CreateRefines ==
    ASSUME Typed, NEW c \in Callers, NEW o \in Call, o = call[c], NEW k \in Keys, o.key = k,
           Create(c)
    PROVE  [Ledger!Next]_(Ledger!lvars)
<1> DEFINE v == [o EXCEPT !.at = "done"]
<1>1. o # None /\ o.at = "absent" /\ o.kind \in Kinds /\ TypeOK /\ CallsKnow
    BY DEF Create, Call, Typed
<1>2. CASE rows[k] # None
  <2>1. call' = [call EXCEPT ![c] = None] /\ rows' = rows
    BY <1>2 DEF Create, Return
  <2>2. \A j : /\ ~Counted(o, j, {"flagged"}) /\ ~Counted(o, j, {"flagged", "done"})
               /\ ~Counted(None, j, {"flagged"}) /\ ~Counted(None, j, {"flagged", "done"})
    BY <1>1 DEF Counted
  <2>3. \A j : Flagged(j)' = Flagged(j) /\ Open(j)' = Open(j)
    BY <1>1, <2>1, <2>2, CallUnseen
  <2>4. \A j \in Keys : EntryOf(j)' = EntryOf(j) /\ Open(j)' = Open(j)
    BY <2>1, <2>3, EntryKept
  <2> QED BY <2>4, OnePairSteps
<1>3. CASE rows[k] = None
  <2>1. call' = [call EXCEPT ![c] = v] /\ rows' = [rows EXCEPT ![k] = NewRow(o.kind, o.pos)]
    BY <1>3 DEF Create, Goto
  <2>2. v # None /\ v.kind = o.kind /\ v.key = k /\ v.at = "done"
    BY <1>1, NoneIsNothing DEF Call
  <2> HIDE DEF v
  <2>3. \A j : /\ ~Counted(o, j, {"flagged"}) /\ ~Counted(o, j, {"flagged", "done"})
               /\ ~Counted(v, j, {"flagged"})
               /\ Counted(v, j, {"flagged", "done"}) <=> o.kind = "played" /\ j = k
    BY <1>1, <2>2 DEF Counted
  <2>4. \A j : Flagged(j)' = Flagged(j)
    BY <1>1, <2>1, <2>3, CallMoves
  <2>5. \A j : ~(o.kind = "played" /\ j = k) => Open(j)' = Open(j)
    BY <1>1, <2>1, <2>3, CallMoves
  <2>6. o.kind = "played" => Open(k)' = Open(k) + 1
    BY <1>1, <2>1, <2>3, CallMoves
  <2>7. \A j \in Keys \ {k} : EntryOf(j)' = EntryOf(j) /\ Open(j)' = Open(j)
    <3>1. \A j \in Keys \ {k} : rows'[j] = rows[j]
      BY <1>1, <2>1 DEF TypeOK
    <3> QED BY <3>1, <2>4, <2>5, EntryKept
  <2>8. Flagged(k) = 0
    BY <1>1, <1>3, NoRowNotFlagged
  <2>9. EntryOf(k) = [pos |-> 0, played |-> FALSE, count |-> 0, fav |-> FALSE]
    BY <1>3, EntryIs DEF Entry, Ledger!Blank
  <2> DEFINE e == EntryOf(k)
  <2>14. /\ e \in EntryType /\ TRUE \in BOOLEAN /\ 0 \in Positions \cup {0} /\ 1 \in Nat
         /\ e.pos = 0 /\ e.played = FALSE /\ e.count = 0 /\ e.fav = FALSE
    BY <2>9 DEF EntryType
  <2>10. EntryOf(k)' = [pos |-> IF o.kind = "position" THEN o.pos ELSE 0,
                        played |-> o.kind = "played",
                        count |-> IF o.kind = "played" THEN 1 ELSE 0,
                        fav |-> o.kind = "favorite"]
    <3>1. rows'[k] = NewRow(o.kind, o.pos) /\ NewRow(o.kind, o.pos) \in Row
      BY <1>1, <2>1, NewRowType DEF TypeOK
    <3>2. EntryOf(k)' = Entry(NewRow(o.kind, o.pos), 0)
      BY <2>4, <2>8, <3>1, EntryIs
    <3>3. EntryOf(k)' = [pos |-> NewRow(o.kind, o.pos).pos,
                         played |-> NewRow(o.kind, o.pos).played,
                         count |-> NewRow(o.kind, o.pos).count,
                         fav |-> NewRow(o.kind, o.pos).fav]
      BY <3>1, <3>2, EntryFields DEF Row
    <3> QED BY <3>3 DEF NewRow
  <2>11. CASE o.kind = "played"
    <3>1. EntryOf(k)' = [EntryOf(k) EXCEPT !.played = TRUE, !.count = @ + 1]
      <4>1. [e EXCEPT !.played = TRUE, !.count = 1]
                = [pos |-> e.pos, played |-> TRUE, count |-> 1, fav |-> e.fav]
        BY <2>14, Replaced
      <4>2. EntryOf(k)' = [pos |-> 0, played |-> TRUE, count |-> 1, fav |-> FALSE]
        BY <2>10, <2>11
      <4>3. e.count + 1 = 1
        BY <2>14
      <4> QED BY <2>14, <4>1, <4>2, <4>3
    <3>2. Ledger!MarkPlayed(k)
      BY <2>6, <2>7, <2>11, <3>1, OnePairSteps
    <3> QED BY <3>2 DEF Ledger!Next
  <2>12. CASE o.kind = "favorite"
    <3>1. EntryOf(k)' = [EntryOf(k) EXCEPT !.fav = TRUE]
      <4>1. [e EXCEPT !.fav = TRUE]
                = [pos |-> e.pos, played |-> e.played, count |-> e.count, fav |-> TRUE]
        BY <2>14, ReplacedFavorite
      <4>2. EntryOf(k)' = [pos |-> 0, played |-> FALSE, count |-> 0, fav |-> TRUE]
        BY <2>10, <2>12
      <4> QED BY <2>14, <4>1, <4>2
    <3>2. Ledger!SetFavorite(k, TRUE)
      BY <2>5, <2>7, <2>12, <3>1, OnePairSteps
    <3> QED BY <3>2 DEF Ledger!Next
  <2>13. CASE o.kind = "position"
    <3>1. EntryOf(k)' = [EntryOf(k) EXCEPT !.pos = o.pos]
      <4>1. [e EXCEPT !.pos = o.pos]
                = [pos |-> o.pos, played |-> e.played, count |-> e.count, fav |-> e.fav]
        BY <2>14 DEF EntryType
      <4>2. EntryOf(k)' = [pos |-> o.pos, played |-> FALSE, count |-> 0, fav |-> FALSE]
        BY <2>10, <2>13
      <4>3. o.pos \in Positions \cup {0}
        BY DEF Call
      <4> QED BY <2>14, <4>1, <4>2, <4>3
    <3>2. Ledger!SetPositions
      <4>1. o.pos \in Positions \cup {0} /\ (o.pos \in Positions \/ o.pos = EntryOf(k).pos)
        BY <2>14 DEF Call
      <4> QED BY <1>1, <2>5, <2>7, <2>13, <3>1, <4>1, PositionSteps
    <3> QED BY <3>2 DEF Ledger!Next
  <2> QED BY <1>1, <2>11, <2>12, <2>13 DEF Kinds
<1> QED BY <1>2, <1>3

LEMMA UpdateRefines ==
    ASSUME Typed, NEW c \in Callers, NEW o \in Call, o = call[c], NEW k \in Keys, o.key = k,
           Update(c)
    PROVE  [Ledger!Next]_(Ledger!lvars)
<1> DEFINE at == IF o.kind = "played" THEN "flagged" ELSE "done"
           v == [o EXCEPT !.at = at]
           r == rows[k]
           n == Flagged(k)
<1>1. o # None /\ o.at = "present" /\ o.kind \in Kinds /\ TypeOK /\ CallsKnow
    BY DEF Update, Call, Typed
<1>2. r \in Row /\ r # None /\ n \in Nat
    BY <1>1, NumbersOfCalls DEF CallsKnow, TypeOK
<1>3. call' = [call EXCEPT ![c] = v]
    BY DEF Update, Goto
<1>4. v # None /\ v.kind = o.kind /\ v.key = k /\ v.at = at
    BY <1>1, NoneIsNothing DEF Call
<1> HIDE DEF v
<1>5. \A j : /\ ~Counted(o, j, {"flagged"}) /\ ~Counted(o, j, {"flagged", "done"})
             /\ Counted(v, j, {"flagged"}) <=> o.kind = "played" /\ j = k
             /\ Counted(v, j, {"flagged", "done"}) <=> o.kind = "played" /\ j = k
    BY <1>1, <1>4 DEF Counted
<1>6. \A j : ~(o.kind = "played" /\ j = k) => Flagged(j)' = Flagged(j) /\ Open(j)' = Open(j)
    BY <1>1, <1>3, <1>5, CallMoves
<1>7. o.kind = "played" => Flagged(k)' = n + 1 /\ Open(k)' = Open(k) + 1
    BY <1>1, <1>3, <1>5, CallMoves
<1>8. \A j \in Keys \ {k} : rows'[j] = rows[j]
    BY <1>1 DEF Update, TypeOK, Kinds
<1>9. \A j \in Keys \ {k} : EntryOf(j)' = EntryOf(j) /\ Open(j)' = Open(j)
    BY <1>6, <1>8, EntryKept
<1>10. EntryOf(k) = Entry(r, n)
    BY EntryIs
<1>11. CASE o.kind = "played"
  <2>1. rows'[k] = [r EXCEPT !.played = TRUE]
    BY <1>1, <1>11 DEF Update, TypeOK
  <2>2. EntryOf(k)' = Entry([r EXCEPT !.played = TRUE], n + 1)
    BY <1>7, <1>11, <2>1, EntryIs
  <2>3. EntryOf(k)' = [EntryOf(k) EXCEPT !.played = TRUE, !.count = @ + 1]
    <3>1. Entry([r EXCEPT !.played = TRUE], n + 1)
            = [Entry(r, n) EXCEPT !.played = TRUE, !.count = @ + 1]
      BY <1>2, EntrySteps
    <3> QED BY <1>10, <2>2, <3>1
  <2>4. Ledger!MarkPlayed(k)
    BY <1>7, <1>9, <1>11, <2>3, OnePairSteps
  <2> QED BY <2>4 DEF Ledger!Next
<1>12. CASE o.kind = "favorite"
  <2>1. rows'[k] = [r EXCEPT !.fav = TRUE]
    BY <1>1, <1>12 DEF Update, TypeOK
  <2>2. EntryOf(k)' = Entry([r EXCEPT !.fav = TRUE], n)
    BY <1>6, <1>12, <2>1, EntryIs
  <2>3. EntryOf(k)' = [EntryOf(k) EXCEPT !.fav = TRUE]
    <3>1. Entry([r EXCEPT !.fav = TRUE], n) = [Entry(r, n) EXCEPT !.fav = TRUE]
      BY <1>2, EntrySteps
    <3> QED BY <1>10, <2>2, <3>1
  <2>4. Ledger!SetFavorite(k, TRUE)
    BY <1>6, <1>9, <1>12, <2>3, OnePairSteps
  <2> QED BY <2>4 DEF Ledger!Next
<1>13. CASE o.kind = "position"
  <2> DEFINE p == o.pos
  <2>1. rows'[k] = [r EXCEPT !.pos = p]
    BY <1>1, <1>13 DEF Update, TypeOK
  <2>2. EntryOf(k)' = Entry([r EXCEPT !.pos = p], n)
    BY <1>6, <1>13, <2>1, EntryIs
  <2>3. p \in Positions
    BY <1>1, <1>13 DEF CallsKnow
  <2>4. EntryOf(k)' = [EntryOf(k) EXCEPT !.pos = p]
    <3>1. Entry([r EXCEPT !.pos = p], n) = [Entry(r, n) EXCEPT !.pos = p]
      BY <1>2, <2>3, EntryMoves
    <3> QED BY <1>10, <2>2, <3>1
  <2>5. Ledger!SetPositions
    BY <1>1, <1>6, <1>9, <1>13, <2>3, <2>4, PositionSteps
  <2> QED BY <2>5 DEF Ledger!Next
<1> QED BY <1>1, <1>11, <1>12, <1>13 DEF Kinds

LEMMA CountPlayRefines ==
    ASSUME Typed, NEW c \in Callers, NEW o \in Call, o = call[c], NEW k \in Keys, o.key = k,
           CountPlay(c)
    PROVE  UNCHANGED Ledger!lvars
<1> DEFINE v == [o EXCEPT !.at = "done"]
<1>1. o # None /\ o.at = "flagged" /\ TypeOK /\ CallsKnow /\ o.kind = "played"
    BY DEF CountPlay, Typed, CallsKnow
<1>2. rows[k] \in Row /\ rows[k] # None /\ Flagged(k) \in Nat
    BY <1>1, NumbersOfCalls DEF CallsKnow, TypeOK
<1>3. call' = [call EXCEPT ![c] = v] /\ rows' = [rows EXCEPT ![k].count = @ + 1]
    BY DEF CountPlay, Goto
<1>4. v # None /\ v.kind = "played" /\ v.key = k /\ v.at = "done"
    BY <1>1, NoneIsNothing DEF Call
<1> HIDE DEF v
<1>5. \A j : /\ Counted(o, j, {"flagged"}) <=> j = k
             /\ Counted(o, j, {"flagged", "done"}) <=> j = k
             /\ ~Counted(v, j, {"flagged"})
             /\ Counted(v, j, {"flagged", "done"}) <=> j = k
    BY <1>1, <1>4 DEF Counted
<1>6. \A j : Open(j)' = Open(j) /\ (j # k => Flagged(j)' = Flagged(j))
    BY <1>1, <1>3, <1>5, CallMoves
<1>7. Flagged(k)' = Flagged(k) - 1 /\ Flagged(k) > 0
    BY <1>1, <1>3, <1>5, CallMoves
<1>8. \A j \in Keys \ {k} : EntryOf(j)' = EntryOf(j) /\ Open(j)' = Open(j)
  <2>1. \A j \in Keys \ {k} : rows'[j] = rows[j]
    BY <1>1, <1>3 DEF TypeOK
  <2> QED BY <2>1, <1>6, EntryKept
<1>9. EntryOf(k)' = EntryOf(k)
  <2>1. rows'[k] = [rows[k] EXCEPT !.count = @ + 1]
    BY <1>1, <1>3 DEF TypeOK
  <2>2. /\ EntryOf(k) = Entry(rows[k], Flagged(k))
        /\ EntryOf(k)' = Entry([rows[k] EXCEPT !.count = @ + 1], Flagged(k) - 1)
    BY <1>7, <2>1, EntryIs
  <2> QED BY <1>2, <1>7, <2>2, EntrySteps
<1> QED BY <1>6, <1>8, <1>9, OnePairSteps

\* A call ends, with an answer or without: a flagged play is lost, one that
\* has been counted is acknowledged.
LEMMA ReturnRefines ==
    ASSUME Typed, NEW c \in Callers, NEW o \in Call, o = call[c], NEW k \in Keys, o.key = k,
           StatementFails(c) \/ Answer(c)
    PROVE  [Ledger!Next]_(Ledger!lvars)
<1>1. /\ o # None /\ TypeOK /\ CallsKnow
      /\ call' = [call EXCEPT ![c] = None] /\ rows' = rows
    BY DEF StatementFails, Answer, Return, Typed
<1>2. \A j : /\ ~Counted(None, j, {"flagged"}) /\ ~Counted(None, j, {"flagged", "done"})
             /\ j # k => ~Counted(o, j, {"flagged"}) /\ ~Counted(o, j, {"flagged", "done"})
    BY DEF Counted
<1>3. \A j : j # k => Flagged(j)' = Flagged(j) /\ Open(j)' = Open(j)
    BY <1>1, <1>2, CallMoves
<1>4. \A j \in Keys \ {k} : EntryOf(j)' = EntryOf(j) /\ Open(j)' = Open(j)
    BY <1>1, <1>3, EntryKept
<1>5. CASE o.kind = "played" /\ o.at = "flagged"
  <2>1. Counted(o, k, {"flagged"}) /\ Counted(o, k, {"flagged", "done"})
    BY <1>1, <1>5 DEF Counted
  <2>2. /\ Flagged(k)' = Flagged(k) - 1 /\ Flagged(k) > 0
        /\ Open(k)' = Open(k) - 1 /\ Open(k) > 0
    BY <1>1, <1>2, <2>1, CallMoves
  <2>3. rows[k] \in Row /\ Flagged(k) \in Nat
    BY <1>1, <1>5, NumbersOfCalls DEF CallsKnow, TypeOK
  <2>4. EntryOf(k)' = [EntryOf(k) EXCEPT !.count = @ - 1]
    <3>1. EntryOf(k) = Entry(rows[k], Flagged(k)) /\ EntryOf(k)' = Entry(rows[k], Flagged(k) - 1)
      BY <1>1, <2>2, EntryIs
    <3>2. 1 \in 0 .. Flagged(k)
      BY <2>2, <2>3
    <3>3. Entry(rows[k], Flagged(k) - 1) = [Entry(rows[k], Flagged(k)) EXCEPT !.count = @ - 1]
      BY <2>3, <3>2, EntryLoses
    <3> QED BY <3>1, <3>3
  <2>5. Ledger!LosePlay(k)
    BY <1>4, <2>2, <2>4, OnePairSteps
  <2> QED BY <2>5 DEF Ledger!Next
<1>6. CASE o.kind = "played" /\ o.at = "done"
  <2>1. ~Counted(o, k, {"flagged"}) /\ Counted(o, k, {"flagged", "done"})
    BY <1>1, <1>6 DEF Counted
  <2>2. Flagged(k)' = Flagged(k) /\ Open(k)' = Open(k) - 1 /\ Open(k) > 0
    BY <1>1, <1>2, <2>1, CallMoves
  <2>3. EntryOf(k)' = EntryOf(k)
    BY <1>1, <2>2, EntryKept
  <2>4. Ledger!AcknowledgePlay(k)
    BY <1>4, <2>2, <2>3, OnePairSteps
  <2> QED BY <2>4 DEF Ledger!Next
<1>7. CASE ~(o.kind = "played" /\ o.at \in {"flagged", "done"})
  <2>1. ~Counted(o, k, {"flagged"}) /\ ~Counted(o, k, {"flagged", "done"})
    BY <1>7 DEF Counted
  <2>2. Flagged(k)' = Flagged(k) /\ Open(k)' = Open(k)
    BY <1>1, <1>2, <2>1, CallMoves
  <2>3. EntryOf(k)' = EntryOf(k)
    BY <1>1, <2>2, EntryKept
  <2> QED BY <1>4, <2>2, <2>3, OnePairSteps
<1> QED BY <1>5, <1>6, <1>7

LEMMA RepositoryRefines ==
    ASSUME Typed, NEW c \in Callers, Repository(c)
    PROVE  [Ledger!Next]_(Ledger!lvars)
<1>1. CASE \E kind \in Kinds, k \in Keys : \E p \in Arguments(kind) : Read(c, kind, k, p)
    BY <1>1, ReadRefines
<1>2. CASE call[c] # None
  <2>1. PICK o \in Call, k \in Keys : o = call[c] /\ o.key = k
    BY <1>2 DEF Typed, TypeOK, Call
  <2>2. CASE Create(c)
    BY <2>1, <2>2, CreateRefines
  <2>3. CASE Update(c)
    BY <2>1, <2>3, UpdateRefines
  <2>4. CASE CountPlay(c)
    BY <2>1, <2>4, CountPlayRefines
  <2>5. CASE StatementFails(c) \/ Answer(c)
    BY <2>1, <2>5, ReturnRefines
  <2> QED BY <1>1, <2>2, <2>3, <2>4, <2>5 DEF Repository
<1> QED BY <1>1, <1>2 DEF Repository, Create, Update, CountPlay, StatementFails, Answer

LEMMA CallsStill ==
    ASSUME call' = call PROVE \A k : Flagged(k)' = Flagged(k) /\ Open(k)' = Open(k)
BY DEF Flagged, Open, InCall

LEMMA ToggleRefines ==
    ASSUME Typed, NEW k \in Keys, NEW column \in {"is_played", "is_favorite"}, Toggle(k, column)
    PROVE  Ledger!Next
<1> DEFINE r == rows[k]
           n == Flagged(k)
<1>1. TypeOK /\ r \in Row /\ n \in Nat /\ FALSE \in BOOLEAN
    BY NumbersOfCalls DEF Toggle, Typed, TypeOK
<1>2. \A j : Flagged(j)' = Flagged(j) /\ Open(j)' = Open(j)
    BY CallsStill DEF Toggle
<1>3. \A j \in Keys \ {k} : EntryOf(j)' = EntryOf(j) /\ Open(j)' = Open(j)
  <2>1. \A j \in Keys \ {k} : rows'[j] = rows[j]
    BY <1>1 DEF Toggle, TypeOK
  <2> QED BY <2>1, <1>2, EntryKept
<1>4. EntryOf(k) = Entry(r, n)
    BY EntryIs
<1>5. CASE column = "is_played"
  <2>1. rows'[k] = [r EXCEPT !.played = FALSE]
    BY <1>1, <1>5 DEF Toggle, TypeOK
  <2>2. EntryOf(k)' = Entry([r EXCEPT !.played = FALSE], n)
    BY <1>2, <2>1, EntryIs
  <2>3. EntryOf(k)' = [EntryOf(k) EXCEPT !.played = FALSE]
    <3>1. Entry([r EXCEPT !.played = FALSE], n) = [Entry(r, n) EXCEPT !.played = FALSE]
      BY <1>1, EntrySteps
    <3> QED BY <1>4, <2>2, <3>1
  <2>4. Ledger!UnmarkPlayed(k)
    BY <1>2, <1>3, <2>3, OnePairSteps
  <2> QED BY <2>4 DEF Ledger!Next
<1>6. CASE column = "is_favorite"
  <2>1. rows'[k] = [r EXCEPT !.fav = FALSE]
    BY <1>1, <1>6 DEF Toggle, TypeOK
  <2>2. EntryOf(k)' = Entry([r EXCEPT !.fav = FALSE], n)
    BY <1>2, <2>1, EntryIs
  <2>3. EntryOf(k)' = [EntryOf(k) EXCEPT !.fav = FALSE]
    <3>1. Entry([r EXCEPT !.fav = FALSE], n) = [Entry(r, n) EXCEPT !.fav = FALSE]
      BY <1>1, EntrySteps
    <3> QED BY <1>4, <2>2, <3>1
  <2>4. Ledger!SetFavorite(k, FALSE)
    BY <1>2, <1>3, <2>3, OnePairSteps
  <2> QED BY <2>4 DEF Ledger!Next
<1> QED BY <1>5, <1>6

LEMMA ReportRefines ==
    ASSUME Typed, NEW k \in Keys, NEW p \in Positions, NEW b \in BOOLEAN, Report(k, p, b)
    PROVE  Ledger!Next
<1>1. TypeOK
    BY DEF Typed
<1>7. PICK r \in Row \cup {None}, n \in Nat :
            r = rows[k] /\ n = Flagged(k) /\ (r = None => n = 0)
    BY NumbersOfCalls, NoRowNotFlagged DEF Typed, TypeOK
<1>2. \A j : Flagged(j)' = Flagged(j) /\ Open(j)' = Open(j)
    BY CallsStill DEF Report
<1>3. \A j \in Keys \ {k} : EntryOf(j)' = EntryOf(j) /\ Open(j)' = Open(j)
  <2>1. \A j \in Keys \ {k} : rows'[j] = rows[j]
    BY <1>1 DEF Report, TypeOK
  <2> QED BY <2>1, <1>2, EntryKept
<1>4. EntryOf(k) = Entry(r, n)
    BY <1>7, EntryIs
<1>5. CASE b
  <2>1. rows'[k] = Finished(WriteProgress(r, p))
    BY <1>1, <1>5, <1>7 DEF Report, TypeOK
  <2>2. EntryOf(k)' = Entry(Finished(WriteProgress(r, p)), n)
    BY <1>2, <1>7, <2>1, EntryIs
  <2>3. EntryOf(k)' = [EntryOf(k) EXCEPT !.pos = p, !.played = TRUE,
                            !.count = IF EntryOf(k).played THEN @ ELSE @ + 1]
    <3>1. Entry(Finished(WriteProgress(r, p)), n)
            = [Entry(r, n) EXCEPT !.pos = p, !.played = TRUE,
                    !.count = IF Entry(r, n).played THEN @ ELSE @ + 1]
      BY <1>7, EntryFinished
    <3> QED BY <1>4, <2>2, <3>1
  <2>4. Ledger!CompleteAt(k, p)
    BY <1>2, <1>3, <2>3, OnePairSteps
  <2> QED BY <2>4 DEF Ledger!Next
<1>6. CASE ~b
  <2>1. rows'[k] = WriteProgress(r, p)
    BY <1>1, <1>6, <1>7 DEF Report, TypeOK
  <2>2. EntryOf(k)' = Entry(WriteProgress(r, p), n)
    BY <1>2, <1>7, <2>1, EntryIs
  <2>3. EntryOf(k)' = [EntryOf(k) EXCEPT !.pos = p]
    <3>1. Entry(WriteProgress(r, p), n) = [Entry(r, n) EXCEPT !.pos = p]
      BY <1>7, EntryReported
    <3> QED BY <1>4, <2>2, <3>1
  <2>4. Ledger!SetPositions
    BY <1>1, <1>2, <1>3, <2>3, PositionSteps
  <2> QED BY <2>4 DEF Ledger!Next
<1> QED BY <1>5, <1>6

LEMMA FlushRefines ==
    ASSUME Typed, FlushCommit PROVE Ledger!Next
<1>1. TypeOK
    BY DEF Typed
<1>2. \A k : Flagged(k)' = Flagged(k) /\ Open(k)' = Open(k)
    BY CallsStill DEF FlushCommit
<1>3. ASSUME NEW k \in Keys, buffer[k] = None PROVE EntryOf(k)' = EntryOf(k)
  <2>1. rows'[k] = rows[k]
    BY <1>3 DEF FlushCommit
  <2> QED BY <2>1, <1>2, EntryKept
<1>4. ASSUME NEW k \in Keys, buffer[k] # None
      PROVE  \E p \in Positions : EntryOf(k)' = [EntryOf(k) EXCEPT !.pos = p]
  <2>1. PICK r \in Row \cup {None}, n \in Nat :
            r = rows[k] /\ n = Flagged(k) /\ (r = None => n = 0)
    BY <1>1, NumbersOfCalls, NoRowNotFlagged DEF Typed, TypeOK
  <2>2. PICK p \in Positions : p = buffer[k]
    BY <1>1, <1>4 DEF TypeOK
  <2>3. rows'[k] = WriteProgress(r, p)
    BY <1>4, <2>1, <2>2 DEF FlushCommit
  <2>4. EntryOf(k)' = Entry(WriteProgress(r, p), n) /\ EntryOf(k) = Entry(r, n)
    BY <1>2, <2>1, <2>3, EntryIs
  <2>5. Entry(WriteProgress(r, p), n) = [Entry(r, n) EXCEPT !.pos = p]
    BY <2>1, EntryReported
  <2>6. EntryOf(k)' = [EntryOf(k) EXCEPT !.pos = p]
    BY <2>4, <2>5
  <2> QED BY <2>6
<1>5. Ledger!SetPositions
    BY <1>1, <1>2, <1>3, <1>4, PositionSteps
<1> QED BY <1>5 DEF Ledger!Next

LEMMA CrashRefines ==
    ASSUME Typed, Crash PROVE Ledger!Next
<1>1. TypeOK /\ rows' = rows
    BY DEF Typed, Crash
<1>2. \A k : Flagged(k)' = 0 /\ Open(k)' = 0
  <2> SUFFICES ASSUME NEW k PROVE Flagged(k)' = 0 /\ Open(k)' = 0
    OBVIOUS
  <2>1. InCall(k, {"flagged"})' = {} /\ InCall(k, {"flagged", "done"})' = {}
    BY DEF Crash, InCall
  <2> QED BY <2>1, FS_EmptySet DEF Flagged, Open
<1>3. ASSUME NEW k \in Keys
      PROVE  \E n \in 0 .. Open(k) : EntryOf(k)' = [EntryOf(k) EXCEPT !.count = @ - n]
  <2> DEFINE n == Flagged(k)
  <2>1. n \in Nat /\ Open(k) \in Nat
    BY NumbersOfCalls
  <2>2. n <= Open(k)
    <3>1. InCall(k, {"flagged"}) \in SUBSET InCall(k, {"flagged", "done"})
      BY DEF InCall
    <3> QED BY <3>1, CallsFinite, FS_Subset DEF Flagged, Open
  <2>3. n \in 0 .. Open(k)
    BY <2>1, <2>2
  <2>4. EntryOf(k) = Entry(rows[k], n) /\ EntryOf(k)' = Entry(rows[k], 0)
    BY <1>1, <1>2, EntryIs
  <2>5. EntryOf(k)' = [EntryOf(k) EXCEPT !.count = @ - n]
    <3>1. CASE rows[k] = None
      <4>1. EntryOf(k)' = EntryOf(k) /\ EntryOf(k).count - n = EntryOf(k).count
        BY <2>4, <3>1, NoRowNotFlagged DEF Typed, Entry, Ledger!Blank
      <4>2. EntryOf(k) \in EntryType
        BY <1>1, EntryTyped
      <4> QED BY <4>1, <4>2 DEF EntryType
    <3>2. CASE rows[k] # None
      <4>1. rows[k] \in Row /\ n \in 0 .. n /\ n - n = 0
        BY <1>1, <2>1, <3>2 DEF TypeOK
      <4>2. Entry(rows[k], n - n) = [Entry(rows[k], n) EXCEPT !.count = @ - n]
        BY <2>1, <4>1, EntryLoses
      <4> QED BY <2>4, <4>1, <4>2
    <3> QED BY <3>1, <3>2
  <2> QED BY <2>3, <2>5
<1>4. Ledger!Crash
    BY <1>2, <1>3 DEF Ledger!Crash, Open
<1> QED BY <1>4 DEF Ledger!Next

\* The buffer, the mutex and the shutdown are invisible to the ledger.
LEMMA RestRefines ==
    ASSUME rows' = rows, call' = call PROVE UNCHANGED Ledger!lvars
<1>1. \A k : EntryOf(k)' = EntryOf(k) /\ Open(k)' = Open(k)
    BY CallsStill, EntryKept
<1> QED BY <1>1 DEF Ledger!lvars, Open

LEMMA InitRefines == Init => Ledger!Init
<1> SUFFICES ASSUME Init PROVE Ledger!Init
    OBVIOUS
<1>1. ASSUME NEW k \in Keys PROVE EntryOf(k) = Ledger!Blank /\ Open(k) = 0
  <2>1. InCall(k, {"flagged", "done"}) = {}
    BY DEF Init, InCall
  <2>2. rows[k] = None
    BY DEF Init
  <2> QED BY <2>1, <2>2, FS_EmptySet, EntryIs DEF Open, Entry
<1> QED BY <1>1 DEF Ledger!Init, Open

LEMMA NextRefines == Typed /\ [Next]_vars => [Ledger!Next]_(Ledger!lvars)
<1> SUFFICES ASSUME Typed, [Next]_vars PROVE [Ledger!Next]_(Ledger!lvars)
    OBVIOUS
<1>1. ASSUME NEW c \in Callers, Repository(c) PROVE [Ledger!Next]_(Ledger!lvars)
    BY <1>1, RepositoryRefines
<1>2. ASSUME NEW k \in Keys, NEW column \in {"is_played", "is_favorite"}, Toggle(k, column)
      PROVE  Ledger!Next
    BY <1>2, ToggleRefines
<1>3. ASSUME NEW k \in Keys, NEW p \in Positions, NEW b \in BOOLEAN, Report(k, p, b)
      PROVE  Ledger!Next
    BY <1>3, ReportRefines
<1>4. CASE FlushCommit
    BY <1>4, FlushRefines
<1>5. CASE Crash
    BY <1>5, CrashRefines
<1>6. CASE \/ \E k \in Keys, p \in Positions : BufferProgress(k, p)
           \/ \E f \in Flushers : FlushBegin(f)
           \/ FlushFail \/ FlushClear \/ Shutdown \/ TickerReturns \/ NothingToFlush
           \/ UNCHANGED vars
  <2>1. rows' = rows /\ call' = call
    BY <1>6 DEF BufferProgress, Put, FlushBegin, FlushFail, FlushClear, Shutdown,
                TickerReturns, NothingToFlush, vars
  <2> QED BY <2>1, RestRefines
<1> QED BY <1>1, <1>2, <1>3, <1>4, <1>5, <1>6 DEF Next

\* The statements of the repository, the report transaction, the buffer and
\* the goroutines that flush it implement the ledger: concurrent creations,
\* upserts and flushes never undo a flag or a count of another call, no play
\* counts twice, and only unacknowledged plays are lost.
THEOREM Refinement == Spec => ImplementsLedger
<1>1. Spec => []Typed
    BY InitTyped, NextTyped, PTL DEF Spec
<1> QED BY <1>1, InitRefines, NextRefines, PTL DEF Spec, ImplementsLedger, Ledger!Spec

(***************************************************************************)
(* Half-marked rows                                                        *)
(***************************************************************************)

\* Somebody owes, or has failed to make, the count of pair k.
Owed(k) == k \in halfMarked \/ InCall(k, {"flagged"}) # {}
Uncounted(r) == r # None /\ r.played /\ r.count = 0

LEMMA PlayedIsCountedIs == PlayedIsCounted <=> \A k \in Keys : Uncounted(rows[k]) => Owed(k)
BY DEF PlayedIsCounted, Uncounted, Owed

\* No upsert makes a row uncounted that was not.
LEMMA UpsertsCount ==
    ASSUME NEW r \in Row \cup {None}, NEW p \in Positions
    PROVE  /\ Uncounted(WriteProgress(r, p)) => Uncounted(r)
           /\ Uncounted(Finished(WriteProgress(r, p))) => Uncounted(r)
<1> DEFINE w == WriteProgress(r, p)
<1>1. w \in Row /\ Finished(w) \in Row /\ w # None
    BY WriteProgressType, NoneIsNothing
<1>2. Uncounted(w) => Uncounted(r)
    BY DEF WriteProgress, Uncounted, Row
<1>3. w.played => Finished(w) = w
    BY DEF Finished
<1>4. ~w.played => Finished(w).count = w.count + 1 /\ w.count \in Nat
    BY <1>1 DEF Finished, Row
<1>5. ~w.played => ~Uncounted(Finished(w))
    BY <1>4 DEF Uncounted
<1> QED BY <1>2, <1>3, <1>5

LEMMA CallersOwe ==
    ASSUME Typed, PlayedIsCounted, NEW c \in Callers, NEW o \in Call, o = call[c],
           NEW k \in Keys, o.key = k,
           Create(c) \/ Update(c) \/ CountPlay(c) \/ StatementFails(c) \/ Answer(c)
    PROVE  PlayedIsCounted'
<1>1. /\ TypeOK /\ CallsKnow /\ o # None /\ o.kind \in Kinds
      /\ \A d \in Callers \ {c} : call'[d] = call[d]
      /\ halfMarked \subseteq halfMarked'
    BY DEF Typed, TypeOK, Create, Update, CountPlay, StatementFails, Answer, Return, Goto, Call
<1>2. \A j \in Keys : (\E d \in Callers \ {c} : d \in InCall(j, {"flagged"}))
                        => InCall(j, {"flagged"})' # {}
    BY <1>1 DEF InCall
<1>3. ASSUME NEW j \in Keys \ {k} PROVE rows'[j] = rows[j] /\ (Owed(j) => Owed(j)')
  <2>1. rows'[j] = rows[j]
    BY <1>1 DEF TypeOK, Create, Update, CountPlay, StatementFails, Answer, Kinds
  <2>2. c \notin InCall(j, {"flagged"})
    BY DEF InCall
  <2>3. InCall(j, {"flagged"}) # {} => InCall(j, {"flagged"})' # {}
    BY <1>2, <2>2 DEF InCall
  <2> QED BY <1>1, <2>1, <2>3 DEF Owed
<1>4. CASE o.at # "flagged" /\ ~Update(c)
  <2>1. c \notin InCall(k, {"flagged"})
    BY <1>4 DEF InCall
  <2>2. Owed(k) => Owed(k)'
    BY <1>1, <1>2, <2>1 DEF Owed, InCall
  <2>3. Uncounted(rows'[k]) => Uncounted(rows[k])
    <3>1. CASE Create(c) /\ rows[k] = None
      <4>1. rows'[k] = NewRow(o.kind, o.pos)
        BY <1>1, <3>1 DEF Create, TypeOK
      <4>2. o.kind = "played" => NewRow(o.kind, o.pos).count = 1
        BY DEF NewRow
      <4>3. o.kind # "played" => NewRow(o.kind, o.pos).played = FALSE
        BY DEF NewRow
      <4>4. ~Uncounted(NewRow(o.kind, o.pos))
        BY <4>2, <4>3 DEF Uncounted
      <4> QED BY <4>1, <4>4
    <3>2. CASE ~(Create(c) /\ rows[k] = None)
      <4>1. ASSUME Create(c) PROVE rows' = rows
        BY <4>1, <3>2 DEF Create
      <4>2. ~CountPlay(c)
        BY <1>4 DEF CountPlay
      <4>3. StatementFails(c) \/ Answer(c) => rows' = rows
        BY DEF StatementFails, Answer
      <4>4. rows' = rows
        BY <1>4, <4>1, <4>2, <4>3
      <4> QED BY <4>4
    <3> QED BY <3>1, <3>2
  <2> QED BY <1>3, <2>2, <2>3, PlayedIsCountedIs DEF PlayedIsCounted, Uncounted, Owed
<1>5. CASE Update(c) /\ o.kind = "played"
  <2>1. call'[c] = [o EXCEPT !.at = "flagged"]
    BY <1>1, <1>5 DEF Update, Goto, TypeOK
  <2>2. c \in InCall(k, {"flagged"})'
    BY <1>1, <1>5, <2>1, NoneIsNothing DEF InCall, Call
  <2> QED BY <1>3, <2>2 DEF PlayedIsCounted, Uncounted, Owed
<1>6. CASE Update(c) /\ o.kind # "played"
  <2>1. o.at = "present" /\ rows[k] \in Row /\ rows[k] # None
    BY <1>1, <1>6 DEF Update, CallsKnow, TypeOK
  <2>2. c \notin InCall(k, {"flagged"})
    BY <2>1 DEF InCall
  <2>3. Owed(k) => Owed(k)'
    BY <1>1, <1>2, <2>2 DEF Owed, InCall
  <2>4. rows'[k] = [rows[k] EXCEPT !.fav = TRUE] \/ rows'[k] = [rows[k] EXCEPT !.pos = o.pos]
    BY <1>1, <1>6, <2>1 DEF Update, TypeOK, Kinds
  <2>5. Uncounted(rows'[k]) => Uncounted(rows[k])
    BY <2>1, <2>4 DEF Uncounted, Row
  <2> QED BY <1>3, <2>3, <2>5 DEF PlayedIsCounted, Uncounted, Owed
<1>7. CASE CountPlay(c)
  <2>1. rows[k] \in Row /\ rows'[k] = [rows[k] EXCEPT !.count = @ + 1]
    BY <1>1, <1>7 DEF CountPlay, CallsKnow, TypeOK
  <2>2. ~Uncounted(rows'[k])
    BY <2>1 DEF Uncounted, Row
  <2> QED BY <1>3, <2>2 DEF PlayedIsCounted, Uncounted, Owed
<1>8. CASE StatementFails(c) /\ o.at = "flagged"
  <2>1. k \in halfMarked'
    BY <1>8 DEF StatementFails
  <2> QED BY <1>3, <2>1 DEF PlayedIsCounted, Uncounted, Owed
<1> QED BY <1>4, <1>5, <1>6, <1>7, <1>8 DEF Create, Update, CountPlay, Answer

LEMMA NextCounted == Typed /\ PlayedIsCounted /\ [Next]_vars => PlayedIsCounted'
<1> SUFFICES ASSUME Typed, PlayedIsCounted, [Next]_vars PROVE PlayedIsCounted'
    OBVIOUS
<1>1. TypeOK
    BY DEF Typed
<1>2. ASSUME call' = call, halfMarked' = halfMarked,
             \A k \in Keys : Uncounted(rows'[k]) => Uncounted(rows[k])
      PROVE  PlayedIsCounted'
    BY <1>2 DEF PlayedIsCounted, Uncounted, InCall
<1>3. ASSUME NEW c \in Callers, Repository(c) PROVE PlayedIsCounted'
  <2>1. CASE call[c] = None
    <3>1. PICK kind \in Kinds, k \in Keys : \E p \in Arguments(kind) : Read(c, kind, k, p)
      BY <1>3, <2>1 DEF Repository, Create, Update, CountPlay, StatementFails, Answer
    <3>2. rows' = rows /\ halfMarked' = halfMarked /\ \A d \in Callers \ {c} : call'[d] = call[d]
      BY <1>1, <3>1 DEF Read, TypeOK
    <3>3. \A j : InCall(j, {"flagged"}) # {} => InCall(j, {"flagged"})' # {}
      BY <2>1, <3>2 DEF InCall
    <3> QED BY <3>2, <3>3 DEF PlayedIsCounted
  <2>2. CASE call[c] # None
    <3>1. PICK o \in Call, k \in Keys : o = call[c] /\ o.key = k
      BY <1>1, <2>2 DEF TypeOK, Call
    <3> QED BY <1>3, <2>2, <3>1, CallersOwe DEF Repository, Read
  <2> QED BY <2>1, <2>2
<1>4. ASSUME NEW k \in Keys, NEW column \in {"is_played", "is_favorite"}, Toggle(k, column)
      PROVE  PlayedIsCounted'
  <2>1. rows[k] \in Row /\ rows[k] # None /\ FALSE \in BOOLEAN
    BY <1>1, <1>4 DEF Toggle, TypeOK
  <2>2. /\ \A j \in Keys \ {k} : rows'[j] = rows[j]
        /\ \/ rows'[k] = [rows[k] EXCEPT !.played = FALSE]
           \/ rows'[k] = [rows[k] EXCEPT !.fav = FALSE]
    BY <1>1, <1>4 DEF Toggle, TypeOK
  <2>3. Uncounted(rows'[k]) => Uncounted(rows[k])
    BY <2>1, <2>2 DEF Uncounted, Row
  <2> QED BY <1>2, <1>4, <2>2, <2>3 DEF Toggle
<1>5. ASSUME NEW k \in Keys, NEW p \in Positions, NEW b \in BOOLEAN, Report(k, p, b)
      PROVE  PlayedIsCounted'
  <2>1. /\ \A j \in Keys \ {k} : rows'[j] = rows[j]
        /\ \/ rows'[k] = WriteProgress(rows[k], p)
           \/ rows'[k] = Finished(WriteProgress(rows[k], p))
        /\ rows[k] \in Row \cup {None}
    BY <1>1, <1>5 DEF Report, TypeOK
  <2>2. Uncounted(rows'[k]) => Uncounted(rows[k])
    BY <2>1, UpsertsCount
  <2> QED BY <1>2, <1>5, <2>1, <2>2 DEF Report
<1>6. CASE FlushCommit
  <2>1. ASSUME NEW k \in Keys PROVE Uncounted(rows'[k]) => Uncounted(rows[k])
    <3>1. CASE buffer[k] = None
      BY <1>6, <3>1 DEF FlushCommit
    <3>2. CASE buffer[k] # None
      <4>1. /\ rows'[k] = WriteProgress(rows[k], buffer[k]) /\ buffer[k] \in Positions
            /\ rows[k] \in Row \cup {None}
        BY <1>1, <1>6, <3>2 DEF FlushCommit, TypeOK
      <4> QED BY <4>1, UpsertsCount
    <3> QED BY <3>1, <3>2
  <2> QED BY <1>2, <1>6, <2>1 DEF FlushCommit
<1>7. CASE Crash
  <2>1. /\ rows' = rows /\ halfMarked \subseteq halfMarked'
        /\ \A k \in Keys : \A c \in InCall(k, {"flagged"}) : k \in halfMarked'
    BY <1>7 DEF Crash, InCall
  <2> QED BY <2>1 DEF PlayedIsCounted
<1>8. CASE \/ \E k \in Keys, p \in Positions : BufferProgress(k, p)
           \/ \E f \in Flushers : FlushBegin(f)
           \/ FlushFail \/ FlushClear \/ Shutdown \/ TickerReturns \/ NothingToFlush
           \/ UNCHANGED vars
  <2>1. rows' = rows /\ call' = call /\ halfMarked' = halfMarked
    BY <1>8 DEF BufferProgress, Put, FlushBegin, FlushFail, FlushClear, Shutdown,
                TickerReturns, NothingToFlush, vars
  <2> QED BY <1>2, <2>1
<1> QED BY <1>3, <1>4, <1>5, <1>6, <1>7, <1>8 DEF Next

\* A row says played with a play count of zero only while MarkAsPlayed owes
\* its second statement, or after that statement failed or was cut off.
THEOREM PlaysAreCounted == Spec => []PlayedIsCounted
<1>1. Init => PlayedIsCounted
    BY DEF Init, PlayedIsCounted
<1> QED BY <1>1, InitTyped, NextTyped, NextCounted, PTL DEF Spec
=============================================================================
