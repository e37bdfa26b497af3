--------------------------- MODULE ErrorReporter ---------------------------
(***************************************************************************)
(* langutil::ErrorReporter (liblangutil/ErrorReporter.{h,cpp}): the list   *)
(* of diagnostics every stage of the compiler writes to, with its two      *)
(* limits.  A reporter is one record, and every method is an operator from *)
(* reporter to reporter; the modules that own a reporter use them.         *)
(*                                                                         *)
(* A diagnostic's text and location are left out.  What the compiler tells *)
(* apart is the Error::Type (Warning or not) and the two notices the       *)
(* reporter adds by itself, so the list is the number of its entries of    *)
(* each sort:                                                              *)
(*   warnings, errors     what the caller reported and the list kept       *)
(*   ignoring             "There are more than 256 warnings. Ignoring ..." *)
(*   aborting             "There are more than 256 errors. Aborting."      *)
(* Both notices have Error::Type::Warning.                                 *)
(***************************************************************************)
EXTENDS Naturals

CONSTANTS MaxWarningsAllowed,   \* c_maxWarningsAllowed, 256 in the code
          MaxErrorsAllowed      \* c_maxErrorsAllowed, 256 in the code

ASSUME LimitsAssumption == /\ MaxWarningsAllowed \in Nat \ {0}
                           /\ MaxErrorsAllowed \in Nat

ErrorList == [warnings : Nat, errors : Nat, ignoring : Nat, aborting : Nat]

Reporter == [list : ErrorList, errorCount : Nat, warningCount : Nat]

NoDiagnostics == [warnings |-> 0, errors |-> 0, ignoring |-> 0, aborting |-> 0]

NewReporter == [list |-> NoDiagnostics, errorCount |-> 0, warningCount |-> 0]

\* The reporter with its warning counter at n and this much added to the list.
Counted(r, n, stored, notices) ==
  [list |-> [warnings |-> r.list.warnings + stored, errors |-> r.list.errors,
             ignoring |-> r.list.ignoring + notices, aborting |-> r.list.aborting],
   errorCount |-> r.errorCount, warningCount |-> n]

\* warning(): checkForExcessiveErrors counts first, adds the notice when the
\* count is exactly the limit, and stores nothing from there on.
Warning(r) ==
  LET n == r.warningCount + 1
  IN  Counted(r, n, IF n >= MaxWarningsAllowed THEN 0 ELSE 1,
                    IF n = MaxWarningsAllowed THEN 1 ELSE 0)

\* The next error() call exceeds the limit: it throws FatalError.
ErrorThrows(r) == r.errorCount + 1 > MaxErrorsAllowed

\* Mutant: the throwing call leaves no notice.
ErrorWithoutNotice(r) ==
  [list |-> [warnings |-> r.list.warnings,
             errors |-> IF ErrorThrows(r) THEN r.list.errors ELSE r.list.errors + 1,
             ignoring |-> r.list.ignoring, aborting |-> r.list.aborting],
   errorCount |-> r.errorCount + 1, warningCount |-> r.warningCount]

\* error() with a type other than Warning.  Past the limit the error itself is
\* not stored, only the notice is, and the call does not return normally.
Error(r) ==
  [list |-> [warnings |-> r.list.warnings,
             errors |-> IF ErrorThrows(r) THEN r.list.errors ELSE r.list.errors + 1,
             ignoring |-> r.list.ignoring,
             aborting |-> IF ErrorThrows(r) THEN r.list.aborting + 1 ELSE r.list.aborting],
   errorCount |-> r.errorCount + 1, warningCount |-> r.warningCount]

\* clear() empties the list and nothing else.
Clear(r) == [list |-> NoDiagnostics, errorCount |-> r.errorCount,
             warningCount |-> r.warningCount]

HasErrors(r) == r.errorCount > 0

ContainsOnlyWarnings(r) == r.list.errors = 0

NoEntries(r) == r.list = NoDiagnostics

=============================================================================
