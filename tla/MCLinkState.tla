----------------------------- MODULE MCLinkState -----------------------------
(***************************************************************************)
(* LinkState on four routers, with every way to give each pair of them one *)
(* of a few pairs of declared costs, and Hyperbolic among the same routers *)
(* as they come and go.  Which of the two a router runs is chosen at the   *)
(* start, as the configuration is read once; the variables of the other    *)
(* keep a value that has no meaning.                                       *)
(***************************************************************************)
EXTENDS LinkState, Hyperbolic, TLC

CONSTANTS a, b, c, d

VARIABLE mode

MCRouters == {a, b, c, d}

NumberOf(r) == CASE r = a -> 1 [] r = b -> 2 [] r = c -> 3 [] r = d -> 4

Pairs == {p \in MCRouters \X MCRouters : NumberOf(p[1]) < NumberOf(p[2])}

LsdbOf(f) ==
    [r \in MCRouters |-> [n \in MCRouters |->
       IF r = n THEN -1
       ELSE IF NumberOf(r) < NumberOf(n) THEN f[<<r, n>>][1] ELSE f[<<n, r>>][2]]]

(* Down, free, cheap, dear at one end, and declared by one end only.       *)
MixedEnds == {<<-1, -1>>, <<0, 0>>, <<1, 1>>, <<3, 1>>, <<1, -1>>}

PositiveEnds == {<<-1, -1>>, <<1, 1>>, <<2, 5>>, <<-1, 1>>}

(* One path per destination, or as many as there are neighbours.           *)
MCLsdbs ==
    1 :> {LsdbOf(f) : f \in [Pairs -> MixedEnds]} @@ 0 :> {LsdbOf(f) : f \in [Pairs -> PositiveEnds]}

MCOthers == {b, c, d}
MCNbrs == {a, b, c}

(* Ordinary coordinates, two routers at the same ones, an angle beyond 2Pi *)
(* and a second dimension.                                                 *)
Plane == {[radius |-> 1, theta |-> <<10>>], [radius |-> 2, theta |-> <<370>>]}
Sphere == Plane \cup {[radius |-> 2, theta |-> <<200>>], [radius |-> 0, theta |-> <<10>>],
                      [radius |-> 1, theta |-> <<10, 20>>]}

Apart(x, y) == IF x > y THEN x - y ELSE y - x

Thetas == {p.theta : p \in Sphere}
Radii == {p.radius : p \in Sphere}

(* Equal vectors are at 0, or past the edge of arccos.                     *)
MCArc ==
    [v \in Thetas, w \in Thetas |->
        IF v = w THEN IF v = <<200>> THEN NotANumber ELSE 0
        ELSE 1 + Apart(v[Len(v)], w[Len(w)])]

MCLength == [r \in Radii, s \in Radii, arc \in 1..400 |-> r + s + arc]

IdleHyperbolic ==
    /\ dryRun = TRUE
    /\ hypTable = NoRoutes
    /\ coordinate = None /\ dryTable = None
    /\ active = {} /\ ownLsa = {} /\ removed = {}
    /\ scheduled = FALSE /\ changes = 0

IdleLinkState ==
    /\ pc = "idle"
    /\ lsdb = None /\ matrix = None /\ distance = None /\ parent = None /\ table = None
    /\ maxFaces = 1 /\ links = {} /\ unexplored = {}

MCInit == \/ mode = "link-state" /\ Init /\ IdleHyperbolic
          \/ mode = "hyperbolic" /\ HypInit /\ IdleLinkState

MCNext == /\ UNCHANGED mode
          /\ \/ mode = "link-state" /\ Next /\ UNCHANGED hypVars
             \/ mode = "hyperbolic" /\ HypNext /\ UNCHANGED vars

MCSpec == MCInit /\ [][MCNext]_<<vars, mode, hypVars>>
=============================================================================
