------------------------------ MODULE Screens ------------------------------
(* The screens that keep a state of their own and share none: one of them is *)
(* looked at, and the others are as they begin.                              *)
EXTENDS PaneLayout, Tablet, Validation, Charts, Traces

VARIABLE screen

-----------------------------------------------------------------------------
LayoutRests == LayoutInit /\ kind = (CHOOSE k \in Kinds : TRUE) /\ saved = None
TabletRests == /\ TabletInit /\ env = (CHOOSE e \in Envs : TRUE)
               /\ stored.machine = None /\ stored.compressor = None
ACase == CHOOSE c \in Cases : TRUE
CheckRests == CheckOf(ACase)
ChartsRest == ChartsInit /\ chart.kind = (CHOOSE k \in ChartKinds : TRUE)
TracesRest == TracesInit /\ kindOf = (CHOOSE k \in ChartOf : TRUE)

ScreensInit ==
    \/ screen = "layout" /\ LayoutInit /\ TabletRests /\ CheckRests /\ ChartsRest /\ TracesRest
    \/ screen = "tablet" /\ LayoutRests /\ TabletInit /\ CheckRests /\ ChartsRest /\ TracesRest
    \/ screen = "check" /\ LayoutRests /\ TabletRests /\ CheckInit /\ ChartsRest /\ TracesRest
    \/ screen = "charts" /\ LayoutRests /\ TabletRests /\ CheckRests /\ ChartsInit /\ TracesRest
    \/ screen = "traces" /\ LayoutRests /\ TabletRests /\ CheckRests /\ ChartsRest /\ TracesInit

ScreensNext ==
    /\ UNCHANGED screen
    /\ \/ screen = "layout" /\ LayoutNext /\ UNCHANGED <<tabletVars, checkVars, chartVars, traceVars>>
       \/ screen = "tablet" /\ TabletNext /\ UNCHANGED <<layoutVars, checkVars, chartVars, traceVars>>
       \/ screen = "check" /\ CheckNext /\ UNCHANGED <<layoutVars, tabletVars, chartVars, traceVars>>
       \/ screen = "charts" /\ ChartsNext /\ UNCHANGED <<layoutVars, tabletVars, checkVars, traceVars>>
       \/ screen = "traces" /\ TracesNext /\ UNCHANGED <<layoutVars, tabletVars, checkVars, chartVars>>

screensVars == <<layoutVars, tabletVars, checkVars, chartVars, traceVars, screen>>

ScreensSpec == ScreensInit /\ [][ScreensNext]_screensVars
=============================================================================
