----------------------------- MODULE MCServices -----------------------------
(* Instances of Services for TLC.                                          *)
EXTENDS Services
CONSTANTS t1, t2, j1, j2, i1, i2, i3, nil, k1, k2, u1, u2, u3

(* the task of the shell, one of the application, and the timer daemon     *)
MTable == <<"cli", "work", "daemon">>

(* five tasks: two under round robin of unlike weight, an EDF task that is *)
(* bound to core 1, and two under CFS                                      *)
MKind == <<"PRIORITY", "PRIORITY", "CFS", "EDF", "CFS">>
MRank == <<0, 1, 0, 0, 0>>
MHome == <<2, 2, 2, 1, 2>>

(* a low, a middle and a high task                                         *)
MThreePrio == (u1 :> 0) @@ (u2 :> 1) @@ (u3 :> 2)

(* two tasks of one core; the other runs its idle task and its handlers    *)
MHomeOf == [k \in {k1, k2} |-> 0]

(* the board's five devices, one that is second in its class, and one that *)
(* has the name of another; and boards whose drivers fail                  *)
MDevClass == ("cpu" :> "CPU") @@ ("uart" :> "CONSOLE") @@ ("plic" :> "IRQC") @@ ("clint" :> "TIMER")
             @@ ("ipi" :> "IPI") @@ ("uart2" :> "CONSOLE") @@ ("twin" :> "CONSOLE")
MDevName  == [d \in DOMAIN MDevClass |-> IF d = "twin" THEN "uart" ELSE d]
MBoard    == <<"cpu", "uart", "plic", "clint", "ipi">>
MOutcomes == {[k \in DevClasses |-> k \notin broken] : broken \in {{}, {"IRQC"}, {"CONSOLE", "IPI"}}}

(* a file or a directory, one within it and one beside it                  *)
MPaths   == {<< >>, <<"a">>, <<"a", "b">>, <<"b">>}
MStems   == [n \in {"a", "b", "c", ".", "..", Junk} |->
                IF n = "b" THEN <<"a", "b">> ELSE IF n = ".." THEN <<".", "..">> ELSE <<n>>]
(* two names of one character, and one that begins with the first of them  *)
MLong    == {<<"a">>, <<"c">>, <<"b">>}
MFlags   == {[create |-> TRUE, trunc |-> FALSE, how |-> "write"],
             [create |-> FALSE, trunc |-> TRUE, how |-> "append"]}
MChunks  == {<<"x", "x">>}
MMounts  == {<<"a">>, <<"a", "b">>}
MBench   == <<"a", "b">>
Abs(names) == [abs |-> TRUE, names |-> names]
Rel(names) == [abs |-> FALSE, names |-> names]
MArgs    == {Abs(<<"a">>), Rel(<<"b">>), Rel(<<"..", "b">>)}

(* names that complete alone, as a directory or not, or as far as they     *)
(* agree; and lines of one and of two letters                              *)
Ent(name, dir) == [name |-> name, dir |-> dir]
MListings ==
    {(<< >> :> {Ent(<<"a", "a">>, TRUE)}) @@ (<<"a", "a", "/">> :> {Ent(<<"a", "a">>, FALSE)}),
     << >> :> {Ent(<<"a", "a", "b">>, FALSE), Ent(<<"a", "a", "a">>, TRUE)}}
MSubmitted == {<<"a">>, <<"a", "a">>}

MLetters  == {"a", NewLineCh}
MPatterns == {<<"a">>}
=============================================================================
