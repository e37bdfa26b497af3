------------------------ MODULE ErrorReporterMachine ------------------------
(***************************************************************************)
(* One ErrorReporter driven by arbitrary calls: the life of the reporter   *)
(* inside one CompilerStack, which outlives any number of parse() calls    *)
(* (each of which clears it).                                              *)
(***************************************************************************)
EXTENDS ErrorReporter, TLAPS

CONSTANT MaxReports     \* bound on either counter: calls past it are not taken

ASSUME MaxReportsAssumption == MaxReports \in Nat

VARIABLES reporter,     \* the ErrorReporter
          thrown,       \* the last call threw FatalError
          since,        \* history: what was reported since the last clear()
          cleared       \* history: clear() was called at least once

vars == <<reporter, thrown, since, cleared>>

Init ==
  /\ reporter = NewReporter
  /\ thrown = FALSE
  /\ since = [warnings |-> 0, errors |-> 0]
  /\ cleared = FALSE

ReportWarning ==
  /\ reporter.warningCount < MaxReports
  /\ reporter' = Warning(reporter)
  /\ thrown' = FALSE
  /\ since' = [since EXCEPT !.warnings = @ + 1]
  /\ UNCHANGED cleared

ReportError ==
  /\ reporter.errorCount < MaxReports
  /\ reporter' = Error(reporter)
  /\ thrown' = ErrorThrows(reporter)
  /\ since' = [since EXCEPT !.errors = @ + 1]
  /\ UNCHANGED cleared

\* fatalError(): reports, then throws whatever error() did.
ReportFatalError ==
  /\ reporter.errorCount < MaxReports
  /\ reporter' = Error(reporter)
  /\ thrown' = TRUE
  /\ since' = [since EXCEPT !.errors = @ + 1]
  /\ UNCHANGED cleared

ClearReporter ==
  /\ reporter' = Clear(reporter)
  /\ thrown' = FALSE
  /\ since' = [warnings |-> 0, errors |-> 0]
  /\ cleared' = TRUE

Next == ReportWarning \/ ReportError \/ ReportFatalError \/ ClearReporter

Spec == Init /\ [][Next]_vars

-----------------------------------------------------------------------------
TypeOK ==
  /\ reporter \in Reporter
  /\ thrown \in BOOLEAN
  /\ since \in [warnings : Nat, errors : Nat]
  /\ cleared \in BOOLEAN

\* Every error reported since the last clear() left exactly one entry: itself,
\* or the "Aborting" notice of the call that threw.  No error is ever lost
\* without a FatalError, whatever was reported and cleared before.
ErrorsAccountedFor ==
  reporter.list.errors + reporter.list.aborting = since.errors

\* The limits hold across clear(): at most MaxErrorsAllowed errors, fewer than
\* MaxWarningsAllowed warnings and one "Ignoring" notice are ever in the list.
ListBounded ==
  /\ reporter.list.errors <= MaxErrorsAllowed
  /\ reporter.list.warnings < MaxWarningsAllowed
  /\ reporter.list.ignoring <= 1

\* As long as the reporter is not reused after clear(), a warning is dropped
\* only while the list says that warnings are ignored.
DroppedWarningsAnnouncedOnce ==
  ~cleared /\ since.warnings > reporter.list.warnings => reporter.list.ignoring = 1

-----------------------------------------------------------------------------
(* Theorems, for every value of the limits. *)

\* The methods keep a reporter a reporter.
LEMMA ReporterOperations ==
  ASSUME NEW r \in Reporter
  PROVE  /\ Warning(r) \in Reporter
         /\ Error(r) \in Reporter
         /\ Clear(r) \in Reporter
  BY LimitsAssumption
  DEF Reporter, ErrorList, NoDiagnostics, Warning, Counted, Error, Clear, ErrorThrows

\* The initial state is well typed.
LEMMA TypeInit == Init => TypeOK
<1>1. NewReporter \in Reporter
  BY DEF NewReporter, NoDiagnostics, Reporter, ErrorList
<1>2. [warnings |-> 0, errors |-> 0] \in [warnings : Nat, errors : Nat]
  OBVIOUS
<1>3. QED
  BY <1>1, <1>2, Zenon DEF Init, TypeOK

\* The reporter and the history stay well typed whatever is reported.
THEOREM TypeCorrect == Spec => []TypeOK
<1>1. Init => TypeOK
  BY TypeInit
<1>2. TypeOK /\ [Next]_vars => TypeOK'
  <2> SUFFICES ASSUME TypeOK, [Next]_vars PROVE TypeOK'
    OBVIOUS
  <2>1. /\ Warning(reporter) \in Reporter
        /\ Error(reporter) \in Reporter
        /\ Clear(reporter) \in Reporter
    BY ReporterOperations DEF TypeOK
  <2>2. CASE ReportWarning
    <3>1. FALSE \in BOOLEAN
      OBVIOUS
    <3>2. since' \in [warnings : Nat, errors : Nat]
      BY <2>2 DEF TypeOK, ReportWarning
    <3>3. QED
      BY <2>1, <2>2, <3>1, <3>2, Zenon DEF TypeOK, ReportWarning
  <2>3. CASE ReportError
    <3>1. ErrorThrows(reporter) \in BOOLEAN
      BY DEF ErrorThrows
    <3>2. QED
      BY <2>1, <2>3, <3>1 DEF TypeOK, ReportError
  <2>4. CASE ReportFatalError
    BY <2>1, <2>4 DEF TypeOK, ReportFatalError
  <2>5. CASE ClearReporter
    BY <2>1, <2>5 DEF TypeOK, ClearReporter
  <2>6. CASE UNCHANGED vars
    BY <2>6 DEF TypeOK, vars
  <2>7. QED
    BY <2>2, <2>3, <2>4, <2>5, <2>6 DEF Next
<1>3. QED
  BY <1>1, <1>2, PTL DEF Spec

-----------------------------------------------------------------------------
\* What ListBounded needs to be inductive: clear() does not touch the counters, so
\* they bound the lists from above across every clear(), and once the notice about
\* warnings is in the list the counter has passed the limit for good.
CountersBoundList ==
  /\ reporter.list.errors <= reporter.errorCount
  /\ reporter.list.errors <= MaxErrorsAllowed
  /\ reporter.list.warnings <= reporter.warningCount
  /\ reporter.list.warnings < MaxWarningsAllowed
  /\ reporter.list.ignoring <= 1
  /\ reporter.warningCount < MaxWarningsAllowed => reporter.list.ignoring = 0

\* ErrorsAccountedFor and the bounds on the list, as one inductive invariant.
ListInvariant == TypeOK /\ ErrorsAccountedFor /\ CountersBoundList

\* The initial state satisfies the invariant.
LEMMA ListInvariantInit == Init => ListInvariant
<1>1. Init => ErrorsAccountedFor /\ CountersBoundList
  BY LimitsAssumption
  DEF Init, ErrorsAccountedFor, CountersBoundList, NewReporter, NoDiagnostics
<1>2. QED
  BY <1>1, TypeInit DEF ListInvariant

\* warning() keeps the invariant.
LEMMA ListInvariantWarning ==
  ASSUME ListInvariant, ReportWarning PROVE ErrorsAccountedFor' /\ CountersBoundList'
<1>1. reporter \in Reporter /\ reporter' = Warning(reporter) /\ since'.errors = since.errors
  BY DEF ListInvariant, TypeOK, ReportWarning
<1>2. QED
  BY <1>1, LimitsAssumption
  DEF ListInvariant, ErrorsAccountedFor, CountersBoundList, Warning, Counted, Reporter, ErrorList

\* error() and fatalError() keep the invariant.
LEMMA ListInvariantError ==
  ASSUME ListInvariant, ReportError \/ ReportFatalError
  PROVE  ErrorsAccountedFor' /\ CountersBoundList'
<1>1. /\ reporter \in Reporter /\ reporter' = Error(reporter)
      /\ since.errors \in Nat /\ since'.errors = since.errors + 1
  BY DEF ListInvariant, TypeOK, ReportError, ReportFatalError
<1>2. QED
  BY <1>1, LimitsAssumption
  DEF ListInvariant, ErrorsAccountedFor, CountersBoundList, Error, ErrorThrows, Reporter,
      ErrorList

\* clear() keeps the invariant.
LEMMA ListInvariantClear ==
  ASSUME ListInvariant, ClearReporter PROVE ErrorsAccountedFor' /\ CountersBoundList'
<1>1. /\ reporter \in Reporter /\ reporter' = Clear(reporter) /\ since'.errors = 0
  BY DEF ListInvariant, TypeOK, ClearReporter
<1>2. QED
  BY <1>1, LimitsAssumption
  DEF ListInvariant, ErrorsAccountedFor, CountersBoundList, Clear, NoDiagnostics, Reporter,
      ErrorList

\* The inductive invariant holds in every reachable state.
THEOREM ListInvariantHolds == Spec => []ListInvariant
<1>1. TypeOK /\ ListInvariant /\ TypeOK' /\ [Next]_vars => ListInvariant'
  <2> SUFFICES ASSUME ListInvariant, TypeOK', [Next]_vars PROVE ListInvariant'
    OBVIOUS
  <2>1. CASE ReportWarning
    BY <2>1, ListInvariantWarning DEF ListInvariant
  <2>2. CASE ReportError \/ ReportFatalError
    BY <2>2, ListInvariantError DEF ListInvariant
  <2>3. CASE ClearReporter
    BY <2>3, ListInvariantClear DEF ListInvariant
  <2>4. CASE UNCHANGED vars
    BY <2>4 DEF vars, ListInvariant, TypeOK, ErrorsAccountedFor, CountersBoundList
  <2>5. QED
    BY <2>1, <2>2, <2>3, <2>4 DEF Next
<1>2. QED
  BY <1>1, ListInvariantInit, TypeCorrect, PTL DEF Spec

\* No error is lost: each one reported since the last clear() is in the list, or its
\* call threw and left the notice.
THEOREM NoErrorLost == Spec => []ErrorsAccountedFor
<1>1. ListInvariant => ErrorsAccountedFor
  BY DEF ListInvariant
<1>2. QED
  BY <1>1, ListInvariantHolds, PTL

\* The list never exceeds the limits, however often the reporter is cleared.
THEOREM ListStaysBounded == Spec => []ListBounded
<1>1. ListInvariant => ListBounded
  BY DEF ListInvariant, CountersBoundList, ListBounded
<1>2. QED
  BY <1>1, ListInvariantHolds, PTL

-----------------------------------------------------------------------------
\* While clear() was never called the counter of warnings is what was reported, and
\* below the limit every one of them is in the list.
CountsUntilCleared ==
  ~cleared => /\ reporter.warningCount = since.warnings
              /\ \/ /\ since.warnings < MaxWarningsAllowed
                    /\ reporter.list.warnings = since.warnings
                 \/ /\ since.warnings >= MaxWarningsAllowed
                    /\ reporter.list.ignoring >= 1

\* Until the first clear() no warning is dropped without the notice in the list.
THEOREM FirstUseAnnouncesDrops == Spec => []DroppedWarningsAnnouncedOnce
<1>1. Init => CountsUntilCleared
  BY LimitsAssumption DEF Init, CountsUntilCleared, NewReporter, NoDiagnostics
<1>2. TypeOK /\ CountsUntilCleared /\ [Next]_vars => CountsUntilCleared'
  <2> SUFFICES ASSUME TypeOK, CountsUntilCleared, [Next]_vars PROVE CountsUntilCleared'
    OBVIOUS
  <2>1. CASE ReportWarning
    BY <2>1, LimitsAssumption
    DEF ReportWarning, TypeOK, CountsUntilCleared, Warning, Counted, Reporter, ErrorList
  <2>2. CASE ReportError \/ ReportFatalError
    <3>1. /\ reporter'.warningCount = reporter.warningCount
          /\ reporter'.list.warnings = reporter.list.warnings
          /\ reporter'.list.ignoring = reporter.list.ignoring
          /\ since'.warnings = since.warnings /\ cleared' = cleared
      BY <2>2 DEF ReportError, ReportFatalError, TypeOK, Error, Reporter, ErrorList
    <3>2. QED
      BY <3>1 DEF CountsUntilCleared
  <2>3. CASE ClearReporter
    BY <2>3 DEF ClearReporter, CountsUntilCleared
  <2>4. CASE UNCHANGED vars
    BY <2>4 DEF vars, CountsUntilCleared
  <2>5. QED
    BY <2>1, <2>2, <2>3, <2>4 DEF Next
<1>3. ListInvariant /\ CountsUntilCleared => DroppedWarningsAnnouncedOnce
  BY LimitsAssumption
  DEF ListInvariant, TypeOK, CountersBoundList, CountsUntilCleared,
      DroppedWarningsAnnouncedOnce, Reporter, ErrorList
<1>4. QED
  BY <1>1, <1>2, <1>3, TypeCorrect, ListInvariantHolds, PTL DEF Spec

=============================================================================
