----------------------------- MODULE Validation -----------------------------
(* What a check of an NC program against a machine says                      *)
(* (src/backend/app/api/programs.py) and how the three screens that show it  *)
(* render it: the upload dialog (UploadConfirmationModal.tsx) and the file   *)
(* details of the file browser and of the file pane                          *)
(* (FileBrowserDetailPanel.tsx, FileManagerPaneDetailPanel.tsx).             *)
(*                                                                           *)
(* Sizes are multiples of the smallest difference that counts. A program has *)
(* at most one work offset, and its tools are a list in which a number may be *)
(* repeated. Texts, names and number formats are left out.                   *)
EXTENDS Integers, Sequences, FiniteSetsExt

CONSTANTS Cases,        \* what is wanted, what is found, and the settings
          DefaultTol,   \* 0.1, the tolerance the file details assume for none
          Axes

\* There is something to check, there are finitely many axes, offsets and
\* tolerances are numbers, and the tools of a program a finite list.
ASSUME CasesAssumption ==
    /\ Cases # {} /\ IsFiniteSet(Axes) /\ DefaultTol \in Nat
    /\ \A c \in Cases : /\ c[1].e \in Int
                       /\ Len(c[1].tools) \in Nat
                       /\ DOMAIN c[1].tools = 1..Len(c[1].tools)
                       /\ c[2].off \in [Axes -> Int] /\ c[3].axis \in [Axes -> Int]

Null == -1

VARIABLES
    wanted,    \* what the program asks for
    found,     \* what the machine has, when it can be read
    settings,  \* the machine's validation settings
    result,    \* the response of the check, or [known |-> FALSE]
    expanded   \* the rows that are folded out

checkVars == <<wanted, found, settings, result, expanded>>

-----------------------------------------------------------------------------
(* The check                                                                 *)

Abs(n) == IF n < 0 THEN -n ELSE n

\* A tool that is only called has no sizes, and nothing is compared.
validate_tool(t, m, s) ==
    LET byDiameter == s.diameter /\ ~t.called
        byLength == s.length /\ ~t.called
        fitsDiameter == IF s.own THEN Abs(m.d - t.d) <= s.tol ELSE m.d = t.d
        fitsLength == IF s.own THEN m.l \in (t.l - s.tol)..(t.l + s.tol) ELSE m.l >= t.l
    IN [available         |-> m.there,
        diameter_match    |-> m.there /\ (byDiameter => fitsDiameter),
        length_sufficient |-> m.there /\ (byLength => fitsLength),
        diameter_tolerance |-> IF m.there /\ s.own /\ byDiameter THEN s.tol ELSE Null,
        length_tolerance   |-> IF m.there /\ s.own /\ byLength THEN s.tol ELSE Null,
        required          |-> t]

\* The machine's tolerances are one per axis, the program's is one for all.
\* Without a tolerance or the offset on the machine nothing is compared.
validate_wcs_offset(w, m, s) ==
    LET tolerances == [a \in Axes |-> IF s.own THEN s.axis[a] ELSE w.e]
        compared == (s.own \/ w.e # 0) /\ m.offset
    IN [compared   |-> compared,
        difference |-> m.off,
        tolerance  |-> IF ~s.own /\ w.e = 0 THEN 0 ELSE Max({tolerances[a] : a \in Axes}),
        within     |-> compared /\ \A a \in Axes : m.off[a] <= tolerances[a]]

\* The lines of the header and the calls without one, in order.
LinesOf(w, n) == {i \in DOMAIN w.tools : w.tools[i].no = n}
Numbers(w) == {w.tools[i].no : i \in DOMAIN w.tools}

\* Without tool data every tool is missing.
FoundTool(m, n) == [m.tools[n] EXCEPT !.there = @ /\ m.read]

\* A tool that is missing or too short and an offset that is off are errors,
\* a wrong diameter is a warning. An offset that cannot be read is a warning.
\* Every line is checked; of a repeated number the response keeps the last row
\* and the errors of all.
validate_program(w, m, s) ==
    LET line == [i \in DOMAIN w.tools |->
                   validate_tool(w.tools[i], FoundTool(m, w.tools[i].no), s)]
        failing == {i \in DOMAIN w.tools :
                      ~line[i].available \/ (s.length /\ ~line[i].length_sufficient)}
        doubtful == {i \in DOMAIN w.tools :
                       line[i].available /\ s.diameter /\ ~line[i].diameter_match}
        wcs == validate_wcs_offset(w, m, s)
        checked == w.wcs /\ m.posni
    IN [known    |-> TRUE,
        tools    |-> [n \in Numbers(w) |-> line[Max(LinesOf(w, n))]],
        errors   |-> {w.tools[i].no : i \in failing},
        warnings |-> {w.tools[i].no : i \in doubtful},
        hasWcs   |-> checked,
        wcs      |-> wcs,
        valid    |-> failing = {} /\ (checked => wcs.within)]

-----------------------------------------------------------------------------
(* The upload dialog                                                         *)

Mark(ok) == IF ok THEN "ok" ELSE "error"

\* defect: a tool that is too short is but a warning
StatusIcon_length(v) ==
    IF ~v.available THEN "error"
    ELSE IF v.diameter_match /\ v.length_sufficient THEN "ok" ELSE "warning"

\* The sign of a tool's row, and its verdict.
StatusIcon(v) ==
    IF ~v.available \/ ~v.length_sufficient THEN "error"
    ELSE IF ~v.diameter_match THEN "warning" ELSE "ok"

ToolPassed(v) == v.available /\ v.diameter_match /\ v.length_sufficient

HasSizes(v) == v.required.d # 0 \/ v.required.l # 0

\* A tool without sizes is not judged. Folded out, an available tool has a
\* line for its length and one for its diameter, each with its tolerance.
ToolRow(v, open, states(_)) ==
    IF ~HasSizes(v)
    THEN [sign |-> "none", says |-> "N/A", lines |-> <<>>]
    ELSE [sign  |-> StatusIcon(v),
          says  |-> IF ToolPassed(v) THEN "PASS" ELSE "FAIL",
          lines |-> IF ~open \/ ~v.available THEN <<>>
                    ELSE <<[sign |-> Mark(v.length_sufficient), states |-> states(v.length_tolerance)],
                           [sign |-> Mark(v.diameter_match), states |-> states(v.diameter_tolerance)]>>]

WcsRow(w, open, within(_)) ==
    [sign  |-> Mark(w.within),
     says  |-> IF w.within THEN "PASS" ELSE "FAIL",
     lines |-> IF open THEN [a \in Axes |-> Mark(within(a))] ELSE <<>>]

renderToolsSection(v, open) ==
    ToolRow(v, open, LAMBDA tolerance : IF tolerance = Null THEN "at least" ELSE "stated")

\* A difference that was not computed is within no tolerance.
renderWCSSection(w, open) ==
    WcsRow(w, open, LAMBDA a : w.compared /\ w.difference[a] <= w.tolerance)

-----------------------------------------------------------------------------
(* The file details of the browser and of the pane                           *)

\* Unless it is undefined a tolerance is formatted: null ends the rendering.
DetailTools(v, open) ==
    ToolRow(v, open, LAMBDA tolerance : IF tolerance = Null THEN "throws" ELSE "stated")

PaneTools(v, open) == DetailTools(v, open)

\* A difference that was not computed counts as none, a tolerance of 0 as the default.
DetailWcs(w, open) ==
    WcsRow(w, open, LAMBDA a : (IF w.compared THEN w.difference[a] ELSE 0)
                                 <= (IF w.tolerance = 0 THEN DefaultTol ELSE w.tolerance))

PaneWcs(w, open) == DetailWcs(w, open)

-----------------------------------------------------------------------------
CheckOf(c) ==
    /\ wanted = c[1] /\ found = c[2] /\ settings = c[3]
    /\ result = [known |-> FALSE]
    /\ expanded = {}

CheckInit == \E c \in Cases : CheckOf(c)

\* The dialog checks when a file is chosen, the file details whenever asked to.
Validate ==
    /\ result' = validate_program(wanted, found, settings)
    /\ UNCHANGED <<wanted, found, settings, expanded>>

\* A tool that is not on the machine has nothing to fold out.
toggleToolExpanded ==
    /\ result.known
    /\ \E n \in DOMAIN result.tools :
         /\ result.tools[n].available /\ HasSizes(result.tools[n])
         /\ expanded' = IF n \in expanded THEN expanded \ {n} ELSE expanded \cup {n}
    /\ UNCHANGED <<wanted, found, settings, result>>

WcsFold == 0    \* the offset's row among those folded out; tools count from 1
toggleWcs ==
    /\ result.known /\ result.hasWcs
    /\ expanded' = IF WcsFold \in expanded THEN expanded \ {WcsFold} ELSE expanded \cup {WcsFold}
    /\ UNCHANGED <<wanted, found, settings, result>>

CheckNext == Validate \/ toggleToolExpanded \/ toggleWcs

CheckSpec == CheckInit /\ [][CheckNext]_checkVars

-----------------------------------------------------------------------------
(* Properties                                                                *)

Judged(n) == HasSizes(result.tools[n])
NamedOnce(n) == \A i, j \in LinesOf(wanted, n) : i = j
Row(n) == renderToolsSection(result.tools[n], TRUE)

\* A row says no more than the verdict does, also for a number the program
\* repeats, and a failing tool that is folded out shows the line that fails.
RowsAreJustified ==
    \A n \in DOMAIN result.tools :
        Judged(n) =>
          /\ Row(n).sign = "error" => n \in result.errors /\ ~result.valid
          /\ Row(n).sign = "warning" => n \in result.warnings
          /\ Row(n).sign = "error" =>
               Row(n).lines = <<>> \/ Row(n).lines[1].sign = "error"

\* What the verdict says of a tool is in its row. The rows of a repeated number
\* are overwritten by its last one, and tools without sizes have no sign.
VerdictHasRow ==
    \A n \in DOMAIN result.tools :
        Judged(n) /\ NamedOnce(n) =>
          /\ n \in result.errors => Row(n).sign = "error"
          /\ n \in result.warnings => Row(n).sign \in {"error", "warning"}

\* A rejection has a row with the sign of an error to explain it.
RejectionHasRow ==
    ~result.valid /\ (\A n \in DOMAIN result.tools : Judged(n) /\ NamedOnce(n)) =>
        \/ \E n \in DOMAIN result.tools : Row(n).sign = "error"
        \/ result.hasWcs /\ renderWCSSection(result.wcs, FALSE).sign = "error"

\* An offset that passes has no axis shown as off, in the dialog nor in the file
\* details, which take another tolerance where it is 0.
PassedAxesPass ==
    result.hasWcs /\ result.wcs.within =>
        \A a \in Axes : /\ renderWCSSection(result.wcs, TRUE).lines[a] = "ok"
                        /\ DetailWcs(result.wcs, TRUE).lines[a] = "ok"

\* The check's verdict, made line by line, and the rows the screens draw from
\* the response, one per tool number, explain each other.
RowsExplainVerdict ==
    result.known => /\ RowsAreJustified /\ VerdictHasRow
                    /\ RejectionHasRow /\ PassedAxesPass

\* A program that is rejected has a row that says so. It has none when a tool
\* number is repeated and only an earlier line of it fails.
RejectionExplained ==
    result.known /\ ~result.valid /\ ~result.hasWcs
      => \E n \in DOMAIN result.tools : ~Judged(n) \/ Row(n).sign = "error"

\* A tool the check rejects is shown as rejected. It is not when the program
\* only calls it.
RejectionShown ==
    result.known => \A n \in result.errors : NamedOnce(n) => Row(n).sign = "error"

\* The file details can be drawn. They cannot, for a tolerance that is null.
DetailsDraw ==
    result.known => \A n \in DOMAIN result.tools :
      LET lines == DetailTools(result.tools[n], n \in expanded).lines
      IN \A i \in DOMAIN lines : lines[i].states # "throws"

\* An offset that is rejected has an axis shown as off. It has none when only
\* the smaller of two tolerances is exceeded, or when nothing was compared.
AxesExplainOffset ==
    result.known /\ result.hasWcs /\ ~result.wcs.within
      => \E a \in Axes : DetailWcs(result.wcs, TRUE).lines[a] = "error"
=============================================================================
