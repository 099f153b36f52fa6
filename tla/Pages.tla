-------------------------------- MODULE Pages --------------------------------
(* The pages of the application: the dashboard of all assets (Fleet), or a   *)
(* screen that deals with files (Files). They share no state, and one of     *)
(* them is mounted.                                                          *)
EXTENDS Files

CONSTANTS Cnc, Compressors, Existing, Configs, GridRows, MaxGridClicks

\* None is no asset, no kind of asset and no place on the card of one.
ASSUME AssetsAssumption ==
    /\ Cnc \cap Compressors = {} /\ Existing \subseteq Cnc \cup Compressors
    /\ None \notin Cnc \cup Compressors \cup {"cnc", "compressor"}
    /\ None \notin [a : Cnc \cup Compressors, r : GridRows, part : {"row", "preview"}]

VARIABLES server, polled, ui, gridClicks

Grid == INSTANCE Fleet WITH Rows <- GridRows, MaxClicks <- MaxGridClicks, clicks <- gridClicks

NoLink == [m |-> None, f |-> None, p |-> None]

gridVars == <<server, polled, ui, gridClicks>>

PagesInit ==
    /\ Grid!Init
    /\ \/ FilesInit
       \/ /\ screen = "dashboard" /\ link = NoLink /\ page = Empty /\ store = {} /\ clicks = 0
          /\ dialog = None /\ sent = {} /\ recorded = {} /\ started = 0

PagesNext ==
    \/ FilesNext /\ UNCHANGED gridVars
    \/ screen = "dashboard" /\ Grid!Next /\ UNCHANGED filesVars

PagesSpec == PagesInit /\ [][PagesNext]_<<filesVars, gridVars>>

-----------------------------------------------------------------------------
(* Fleet's properties *)

\* An edit on the dashboard can be ended: one form at most is open, and the
\* header names what is expanded.
EditReachable == Grid!EditReachable

\* A form of the dashboard that waits has its request under way.
FormsNeverStick == Grid!FormsNeverStick

\* The previews of a compressor are hidden some time after the pointer has gone.
PreviewsClose == Grid!PreviewsClose
=============================================================================
