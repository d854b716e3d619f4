------------------------------ MODULE MCImages ------------------------------
(* A base image and one built on it, from a directory a with a file b (and  *)
(* d, which is ignored) and a file c.                                       *)
EXTENDS ImageBuild, TLC

Sym == Permutations(Pusher)

(* Builds and pushes take turns: they share nothing but what a push reads   *)
(* when it starts.  The runs where two pushes are on at once, or wrote one  *)
(* file at once, have one build, or two of unedited files where what they   *)
(* both write is the index.                                                 *)
Budget ==
    /\ build.on => \A u \in Pusher : Pushing(u, "none")
    /\ contested # {} \/ (\A u \in Pusher : ~ Pushing(u, "none")) =>
          builds <= 1 \/ (builds = 2 /\ edits = 0 /\ fails = 0 /\ contested \subseteq {IndexFile})

Paths == {<<"a">>, <<"a", "b">>, <<"a", "d">>, <<"a", "c">>, <<"c">>}
Contents == {"v1", "v2"}
Distinct == [v \in Contents |-> v]
Tree0 == [p \in Paths |-> IF p = <<"a">> THEN Dir ELSE IF p = <<"a", "c">> THEN Absent ELSE "v1"]
IgnoreD == {<<"a", "d">>}

I(op, arg)            == [op |-> op, arg |-> arg, stage |-> 0, src |-> <<"c">>, dest |-> <<"c">>]
CopyFrom(k, src, dest) == [op |-> "COPY", arg |-> "", stage |-> k, src |-> src, dest |-> dest]

Base == <<I("FROM", Scratch), CopyFrom(0, <<"a">>, <<"a">>), I("RUN", "clean")>>
App  == <<I("FROM", "base"), I("ENV", "x"), I("RUN", "fetch"), CopyFrom(0, <<"c">>, <<"a">>)>>
(* A stage to copy from, and a RUN that both writes and deletes.            *)
Staged == <<I("FROM", "base"), I("RUN", "fetch"),
            I("FROM", Scratch), CopyFrom(1, <<"a">>, <<"a">>), I("RUN", "clean"),
            I("RUN", "swap")>>
Purge == <<I("FROM", Scratch), CopyFrom(0, <<"a">>, <<"a">>), I("RUN", "purge")>>

Programs  == [t \in {"base", "app"} |-> IF t = "base" THEN {Base} ELSE {App, Staged}]
PurgeOnly == [t \in {"base", "app"} |-> IF t = "base" THEN {Purge} ELSE {App}]

Nothing == [p \in {} |-> ""]
Effects ==
    [c \in {"clean", "fetch", "swap", "purge"} |->
        CASE c = "clean"   -> {[write |-> Nothing, delete |-> {<<"a", "b">>}]}
          [] c = "fetch"   -> {[write |-> (<<"a">> :> Dir @@ <<"a", "c">> :> v), delete |-> {}] : v \in Contents}
          [] c = "swap" -> {[write |-> (<<"c">> :> "v1"), delete |-> {<<"a", "c">>}]}
          [] c = "purge"   -> {[write |-> Nothing, delete |-> {<<"a">>}]}]
=============================================================================
