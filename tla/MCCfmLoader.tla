---------------------------- MODULE MCCfmLoader ----------------------------
(* Forks of five containers, back to back.  The two the loader leaves out, *)
(* then three of four kinds in every order and mixture: exporters of a     *)
(* name in front of and behind its importers, one of a name the host has a *)
(* handler for, one of a name in no section, two data sections and none.   *)
(* The export map and the table of stubs can fill up.                      *)
EXTENDS CfmLoader

CONSTANTS More, NewPtr   \* handlers

MCHandlers ==
  [n \in {"QD", "Draw", "Gestalt", "MoreMasters", "NewPtr", "NewPtrSys"} |->
     CASE n = "MoreMasters" -> More [] n \in {"NewPtr", "NewPtrSys"} -> NewPtr [] OTHER -> None]

Section(kind, at, length, align) == [kind |-> kind, at |-> at, length |-> length, align |-> align]
Loader == Section("loader", 12, 4, 1)
Export(name, section, value) == [name |-> name, section |-> section, value |-> value]

MCFragment(sections, init, exports, imports) ==
  [sections |-> sections, init |-> init, tocOffset |-> 2, exports |-> exports, imports |-> imports]

MCKinds ==
  {MCFragment(<<Section("code", 4, 8, 4), Section("data", 12, 5, 4), Loader>>, 2,
              <<Export("QD", 2, 0)>>, <<"Draw", "NewPtr">>),
   MCFragment(<<Section("code", 4, 7, 4), Section("data", 11, 6, 2), Section("data", 12, 3, 8), Loader>>, 0,
              <<Export("Draw", 1, 4), Export("QD", 9, 0)>>, <<"QD", "Gestalt">>),
   MCFragment(<<Section("data", 4, 3, 4), Loader>>, 1,
              <<Export("NewPtr", 1, 1)>>, <<"QD", "NewPtrSys", "MoreMasters">>),
   MCFragment(<<Section("code", 4, 4, 2), Loader>>, 0,
              <<>>, <<"Gestalt", "QD", "MoreMasters", "Draw", "NewPtr">>)}

\* Containers of sixteen bytes.
MCFork(third, fourth, fifth) ==
  [k \in 0 .. 4 |->
     (CASE k = 2 -> third [] k = 3 -> fourth [] k = 4 -> fifth
        [] OTHER -> MCFragment(<<Loader>>, 0, <<Export("Draw", 1, 0)>>, <<"QD">>))
     @@ [base |-> 16 * k + 40]]

MCForks == {MCFork(a, b, c) : a, b, c \in MCKinds}
=============================================================================
