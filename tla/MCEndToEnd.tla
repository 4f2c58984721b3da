---------------------------- MODULE MCEndToEnd ----------------------------
(***************************************************************************)
(* Instance of EndToEnd for TLC.                                           *)
(***************************************************************************)
EXTENDS EndToEnd, TLC

CONSTANTS w1, w2

Launch(kind, code, capabilities) == [kind |-> kind, code |-> code, capabilities |-> capabilities]
Both == {"LLM_INFER", "TASK"}

\* Two programs that share the key file, one of them paired, or one program of
\* another kind, or a CLI worker for tasks only.
MCFleets ==
    {(w1 :> Launch("desktop", FALSE, Both) @@ w2 :> Launch("cli", TRUE, Both))}
        \cup {(w1 :> Launch(kind, FALSE, {"TASK"})) : kind \in {"cli", "simulator", "android"}}

Text(found, words) == [words |-> words, found |-> found, long |-> FALSE, blocks |-> <<"json", "other">>]

Line(sdk, type, prompt, input, taskType, policy, privacy) ==
    [sdk |-> sdk, type |-> type, prompt |-> prompt, input |-> input, taskType |-> taskType,
     policy |-> policy, privacy |-> privacy, chain |-> "", forced |-> FALSE]

\* A PRIVATE prompt, a task, a task without an input, and a call of the SDK
\* with a word that not every executor knows.
MCOptions ==
    {Line(FALSE, "llm", TRUE, <<>>, "", "", "private"),
     Line(FALSE, "task", FALSE, <<Text({"good", "awful"}, 4)>>, "classify", "", ""),
     Line(FALSE, "task", FALSE, <<>>, "summarize", "", ""),
     Line(TRUE, "task", FALSE, <<Text({"best"}, 1)>>, "classify", "", "")}

MCConfigs == {[f \in ConfigFiles |-> IF f = "home" THEN home ELSE "absent"] : home \in {"AUTO", "absent"}}

\* Two programs at once are tried with the PRIVATE prompt only, and without
\* payments; a default policy other than AUTO likewise, and with one CLI worker.
Scenario ==
    /\ w2 \in DOMAIN launch =>
           /\ ~gated /\ config["home"] = "AUTO"
           /\ \A r \in Runs : At(r, "off") \/ run[r].opts.privacy = "private"
    /\ config["cwd"] \in {"FAST", "CHEAP"} =>
           ~gated /\ w2 \notin DOMAIN launch /\ launch[w1].kind = "cli"
=============================================================================
