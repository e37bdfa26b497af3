---------------------------- MODULE MC_Assemble ----------------------------
(***************************************************************************)
(* Assemblies around the sizes where a width changes.                      *)
(***************************************************************************)
EXTENDS Assemble

LOCAL INSTANCE SequencesExt

It(type, n) == [type |-> type, n |-> n, sub |-> 0]

\* Subassemblies: with tags on both sides of 255, with small ones, and without.
Sub == [size |-> 300, tags |-> [t \in {1, 2} |-> IF t = 1 THEN 10 ELSE 290], links |-> {40, 80}]
SmallSub == [size |-> 100, tags |-> [t \in {1, 2} |-> 3 * t], links |-> {30}]
DataSub == [size |-> 60, tags |-> [t \in {0} |-> 0], links |-> {}]

\* What stands before and behind a stretch of code that is filled up to a given estimate.
Pieces ==
  {<<It("PushTag", 1), It("PushTag", 1)>>, <<It("PushData", 1), It("PushProgramSize", 0)>>,
   <<It("PushSub", 1), It("PushSub", 1)>>, <<It("PushLibraryAddress", 0), It("PushSubSize", 1)>>,
   <<It("Push", 0), It("PushString", 0)>>, <<It("PushData", 2), It("PushDeployTimeAddress", 0)>>,
   <<[type |-> "PushTag", n |-> 2, sub |-> 1]>>, <<It("Tag", 2)>>}

End == <<It("PushTag", 1), It("PushTag", 1), It("Tag", 1)>>

Estimate(items, data) ==
  FoldLeft(LAMBDA n, i : n + BytesRequired(i, 1), 1, items) + FoldLeft(LAMBDA n, d : n + d, 0, data)

Filled(before, behind, data, target) ==
  before \o <<It("Operation", target - Estimate(before \o behind, data))>> \o behind

WellFormed(a) ==
  \A j \in 1..Len(a.items) :
    /\ a.items[j].type = "PushData" => a.items[j].n \in 1..Len(a.data)
    /\ a.items[j].type \in {"PushSub", "PushSubSize"} => a.items[j].n \in 1..Len(a.subs)

SomeAssemblies ==
  {a \in {[items |-> Filled(p, q \o End, d, e), data |-> d, subs |-> s, aux |-> x] :
            p \in Pieces, q \in Pieces, e \in {220, 254, 255, 256}, d \in {<< >>, <<1, 40>>},
            s \in {<< >>, <<DataSub>>, <<Sub>>, <<SmallSub, Sub>>}, x \in {0, 43}} :
     WellFormed(a)}

=============================================================================
