------------------------------ MODULE MCScreens ------------------------------
(* Small instances of the screens. *)
EXTENDS Screens

\* Layouts: two panes of each kind, one that took over from an old one, and a stored layout with a pane nobody knows.
MCKinds == {"machine", "compressor"}
MCPanes == [k \in MCKinds |-> IF k = "machine" THEN {"tools", "runs"} ELSE {"panel", "alarms"}]
MCLegacy == [k \in MCKinds |-> IF k = "machine" THEN "cycles" ELSE "telemetry"]
MCHeir == [k \in MCKinds |-> IF k = "machine" THEN "runs" ELSE None]
MCPlace == [k \in MCKinds |-> [p \in MCPanes[k] |-> 0]]
R(a, v) == [at |-> a, visible |-> v]
MCStored == [k \in MCKinds |->
   IF k = "machine"
   THEN {None, [p \in {"cycles", "tools"} |-> R(IF p = "tools" THEN 1 ELSE 0, p = "cycles")],
         [p \in {"tools", "runs", "extra"} |-> R(IF p = "tools" THEN 1 ELSE 0, p = "tools")]}
   ELSE {None, [p \in {"telemetry", "panel"} |-> R(0, p = "panel")], [p \in {"telemetry"} |-> R(0, TRUE)]}]

\* The tablet: two machines, one of them disabled, and a compressor.
MCIds == [k \in AssetKinds |-> IF k = "machine" THEN {1, 2} ELSE {1}]
MCListed == [k \in AssetKinds |-> {1}]
MCEnvs == {[machine |-> None, compressor |-> None], [machine |-> 2, compressor |-> 1]}
MCSlugs == [k \in AssetKinds |-> IF k = "machine" THEN <<"overview", "tools", "files">> ELSE <<"overview", "psi">>]

\* Validation: every small tool against every other, two tools or a repeated one,
\* and every small offset of two axes.
MCSizes == 0..2
MCAxes == {"x", "z"}
MCLine == [no : {1}, d : MCSizes, l : MCSizes, called : {FALSE}]
          \cup {[no |-> 1, d |-> 0, l |-> 0, called |-> TRUE]}
MCPair == [no : 1..2, d : {0, 1}, l : 1..2, called : {FALSE}]
MCSingles == [tools : {<<t>> : t \in MCLine}, wcs : {FALSE}, e : {0}]
MCDoubles == [tools : {<<>>} \cup {<<t, u>> : t \in MCPair, u \in MCPair},
              wcs : {FALSE}, e : {0}]
MCOffsets == [tools : {<<[no |-> 1, d |-> 1, l |-> 1, called |-> FALSE]>>}, wcs : {TRUE}, e : MCSizes]
MCNoOff == [a \in MCAxes |-> 0]
MCOne == [there |-> TRUE, d |-> 1, l |-> 1]
MCFound(tools, reads, offs) == [tools : tools, read : reads, posni : BOOLEAN, offset : reads, off : offs]
MCSettings(own, axes) == [own : BOOLEAN, diameter : own, length : own, tol : MCSizes, axis : axes]
MCCases ==
    (MCSingles \X MCFound([{1} -> [there : BOOLEAN, d : MCSizes, l : MCSizes]], {TRUE, FALSE}, {MCNoOff})
               \X MCSettings(BOOLEAN, {MCNoOff}))
    \cup (MCDoubles \X [tools : [1..2 -> [there : BOOLEAN, d : {1}, l : {1, 2}]],
                        read : {TRUE}, posni : {FALSE}, offset : {FALSE}, off : {MCNoOff}]
                    \X [own : BOOLEAN, diameter : BOOLEAN, length : BOOLEAN, tol : {0}, axis : {MCNoOff}])
    \cup (MCOffsets \X MCFound({[n \in {1} |-> MCOne]}, {TRUE, FALSE}, [MCAxes -> MCSizes])
                    \X MCSettings({TRUE}, [MCAxes -> MCSizes]))
=============================================================================
