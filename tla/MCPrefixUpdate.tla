---------------------------- MODULE MCPrefixUpdate ----------------------------
(* Many short files, and one or two that commands change. *)
EXTENDS PrefixUpdate, TLC

NoNum == [k \in {} |-> 0]

General(num, dir) ==
    [kind |-> "general", sync |-> "psync", id |-> <<"net", "site", "router">>,
     num |-> num, stateDir |-> dir]

Neighbors(num, on, nbrs) == [kind |-> "neighbors", num |-> num, on |-> on, nbrs |-> nbrs]

Hyperbolic(word, exact, radius, angle) ==
    [kind |-> "hyperbolic", state |-> [word |-> word, exact |-> exact],
     radius |-> radius, angle |-> angle]

Advertising(heading, lines) ==
    [kind |-> "advertising", heading |-> heading, outside |-> {}, lines |-> lines]

Line(n, l) == [name |-> n, layout |-> l]

Security(entries) == [kind |-> "security", entries |-> entries]

Nbr(n, u) == [name |-> n, uri |-> u]

(* Sections with something at the edge. *)
Sections ==
    {General(num, "usable") : num \in
        {NoNum, [lsaRefreshTime |-> 240], [lsaRefreshTime |-> 7200, routerDeadInterval |-> 7200],
         [lsaRefreshTime |-> 239], [routerDeadInterval |-> -1],
         [lsaInterestLifetime |-> -1, syncInterestLifetime |-> 1000],
         [lsaRefreshTime |-> Bad, lsaInterestLifetime |-> 60],
         [syncInterestLifetime |-> 120001]}}
    \cup {General(NoNum, dir) : dir \in {"absent", "noNewFiles", "own"}}
    \cup {[General(NoNum, "usable") EXCEPT !.sync = p] : p \in {"svs", "none"}}
    \cup {[General([lsaRefreshTime |-> 240], "usable") EXCEPT !.id = <<"net2", x, "router">>] :
             x \in {"site", NoName}}
    \cup {Neighbors(num, NoNum, << >>) : num \in
            {[helloRetries |-> 15, helloTimeout |-> 15, helloInterval |-> 30],
             [helloRetries |-> 0], [helloTimeout |-> -1], [helloInterval |-> Bad],
             [faceDatasetFetchTries |-> 11], [faceDatasetFetchTries |-> Bad],
             [verificationTimeoutMs |-> -1], [syncPublishDelay |-> Bad],
             [syncPublishDelay |-> 0, verificationTimeoutMs |-> 300]}}
    \cup {Neighbors(NoNum, on, nbrs) :
             on \in {NoNum, [eventDriven |-> "on"], [corridor |-> "yes"]},
             nbrs \in {<<Nbr("r1", "u1"), Nbr("r1", "u2")>>, <<Nbr("r1", "u2"), Nbr("r2", "u2")>>,
                       <<Nbr(NoName, "u1"), Nbr("r2", "u1")>>, <<Nbr("r1", Bad)>>,
                       <<Nbr("r1", "u1"), Nbr(Bad, "u1")>>}}
    \cup {Hyperbolic(w, e, r, a) : w \in {"on", "off", "maybe"}, e \in BOOLEAN,
                                   r \in {Bad, -1, 0}, a \in {Bad, << >>, <<1>>}}
    \cup {[kind |-> "fib", num |-> num] : num \in
            {NoNum, [maxFacesPerPrefix |-> 60, routingCalcInterval |-> 0],
             [maxFacesPerPrefix |-> -1], [routingCalcInterval |-> 16]}}
    \cup {Advertising("alone", {Line(n, "exact")}) : n \in {"a", "b", NoName}}
    \cup {[Advertising("alone", {Line(n, "exact")}) EXCEPT !.outside = {Line("b", "exact")}] :
             n \in {"a", NoName}}
    \cup {Security(e) : e \in
            {<<"validator">>, << >>, <<"validator", "cert-to-publish">>,
             <<"validator", "prefix-update-validator", "cert-to-publish">>,
             <<"validator", "prefix-update-validator", "cert-to-publish", "validator">>}}
    \cup {[kind |-> "unknown"], [kind |-> "broken"]}

ShortFiles == {<<s>> : s \in Sections} \cup {<<s, t>> : s \in Sections, t \in Sections}

(* Files that commands work on.  Tidy has a line that is only indented     *)
(* differently from what nlsrd writes, and one with a comment behind it as *)
(* in the nlsr.conf that is shipped; Joined has its brace on the line of   *)
(* the heading, and Apart a blank line between the two.                    *)
Writer(heading, lines) ==
    <<General(NoNum, "usable"), Advertising(heading, lines),
      Security(<<"validator", "prefix-update-validator">>)>>

Tidy == Writer("alone", {Line("a", "indented"), Line("b", "commented")})
Joined == Writer("inline", {Line("a", "exact")})
Apart == Writer("blank", {Line("a", "exact")})

(* Refused only after the copy. *)
LateRefused == <<General(NoNum, "usable"), Advertising("alone", {}), Hyperbolic("on", TRUE, Bad, Bad)>>

MCFiles == ShortFiles \cup {Tidy, Joined, Apart, LateRefused}

MCBound ==
    [f \in MCFiles |->
        IF f = Tidy
        THEN [starts |-> 2, commands |-> 3, refreshes |-> 1, ribCommands |-> 1, accesses |-> 1]
        ELSE IF f \in {Joined, Apart}
        THEN [starts |-> 1, commands |-> 2, refreshes |-> 0, ribCommands |-> 0, accesses |-> 0]
        ELSE [starts |-> 1, commands |-> 0, refreshes |-> 0, ribCommands |-> 0, accesses |-> 0]]

(* The runs of nlsrc are all alike. *)
MCSymmetry == Permutations(Clients)
=============================================================================
