--------------------------- MODULE MCConfigStore ---------------------------
(* A small instance of ConfigStore: two names that differ in case, one of  *)
(* them from an id that is sanitised.                                      *)
EXTENDS ConfigStore, TLC

MCLower == "a" :> "a" @@ "A" :> "a"
MCSanitise == "A" :> "A" @@ "a." :> "a"

Given(alert, arg, window) == [alert |-> alert, arg |-> arg, window |-> window]
MCForms == {Given(0, "unset", NoWindow), Given(2, "bad", "nightly"),
            Given(1, "given", BadWindow)}

System == Given(0, "given", NoWindow)
MCDefaults ==
    [entries |-> [k \in Keys |-> IF k \in SystemKeys THEN System ELSE None],
     interval |-> 60, title |-> "LMON Dashboard", webhook |-> "testhook"]
MCHandWritten ==
    {[MCDefaults EXCEPT !.entries[Cpu].window = "nightly", !.title = "mine",
                        !.entries[<<"docker", "a">>] = Given(0, "given", "nightly")]}
============================================================================
