----------------------------- MODULE PagesProofs -----------------------------
(* The file screens (FileBrowser, FileManagerPane) and the upload dialog      *)
(* (UploadModal): the properties of Files that the run of Pages checks, for   *)
(* every tree of files, every address and every order of answers. Almost all  *)
(* is said of a state s and of what its effects make of it, and then of page. *)
(* Last the dashboard (Fleet), for every set of assets, in the same way: what  *)
(* a step makes of the cards is completed by rendering them.                   *)
EXTENDS Pages, FiniteSetTheorems, TLAPS

-----------------------------------------------------------------------------
(* The state of a file screen *)

Fields == {"machine", "path", "pathLoading", "list", "loading", "error", "selected", "wanted",
           "preview", "detail", "picked", "fresh", "validating", "view", "badges", "refresh",
           "seq", "requests"}

PageShape(s) == s = [k \in Fields |-> s[k]]

LEMMA EmptyShape == PageShape(Empty)
  BY DEF Empty, PageShape, Fields

\* What decides which list is shown, and of what.
Core(s) == <<s.machine, s.path, s.pathLoading, s.list, s.loading, s.error, s.selected, s.wanted>>

Looks == {"preview", "metadata", "detail", "deployment"}
Details == Looks \cup {"badges", "view", "download", "validated", "upload"}

\* t asks at most for more about what is selected.
Follows(s, t) ==
    /\ PageShape(t)
    /\ Core(t) = Core(s)
    /\ s.requests \subseteq t.requests
    /\ \A r \in t.requests \ s.requests : r.kind \in Looks

LEMMA FollowsSelf ==
    ASSUME NEW s, PageShape(s)
    PROVE  Follows(s, s)
  BY DEF Follows

LEMMA FollowsOn ==
    ASSUME NEW s, NEW t, NEW u, Follows(s, t), Follows(t, u)
    PROVE  Follows(s, u)
  BY DEF Follows

LEMMA FetchFollows ==
    ASSUME NEW s, PageShape(s), NEW rs, \A r \in rs : r.kind \in Looks
    PROVE  Follows(s, Fetch(s, rs))
<1>1. PageShape(Fetch(s, rs)) BY DEF Fetch, PageShape
<1> QED BY <1>1 DEF Fetch, PageShape, Fields, Follows, Core

LEMMA ClearedFollows ==
    ASSUME NEW s, PageShape(s), NEW a, NEW b, NEW c, NEW d
    PROVE  /\ Follows(s, [s EXCEPT !.fresh = d])
           /\ Follows(s, [s EXCEPT !.picked = d])
           /\ Follows(s, [s EXCEPT !.fresh = d, !.picked = c])
           /\ Follows(s, [s EXCEPT !.preview = a, !.detail = b, !.picked = c])
           /\ Follows(s, [s EXCEPT !.preview = a, !.detail = b])
           /\ Follows(s, [s EXCEPT !.detail = b, !.picked = c])
           /\ Follows(s, [s EXCEPT !.detail = b])
<1>1. /\ PageShape([s EXCEPT !.fresh = d])
      /\ PageShape([s EXCEPT !.picked = d])
      /\ PageShape([s EXCEPT !.fresh = d, !.picked = c])
      /\ PageShape([s EXCEPT !.preview = a, !.detail = b, !.picked = c])
      /\ PageShape([s EXCEPT !.preview = a, !.detail = b])
      /\ PageShape([s EXCEPT !.detail = b, !.picked = c])
      /\ PageShape([s EXCEPT !.detail = b])
  BY DEF PageShape
<1> QED BY <1>1 DEF PageShape, Fields, Follows, Core

LEMMA RequestIs ==
    ASSUME NEW kind, NEW m, NEW p, NEW f, NEW d
    PROVE  /\ Request(kind, m, p, f).kind = kind
           /\ [Request(kind, m, p, f) EXCEPT !.d = d].kind = kind
           /\ Request(kind, m, p, f).m = m /\ Request(kind, m, p, f).p = p
  BY DEF Request

LEMMA PreviewFollows ==
    ASSUME NEW s, PageShape(s), NEW f
    PROVE  Follows(s, fetchFilePreview(s, f))
<1>1. \A r \in {Request("preview", s.machine, s.path, f)} : r.kind \in Looks
  BY RequestIs DEF Looks
<1> QED BY <1>1, FetchFollows, FollowsSelf DEF fetchFilePreview

LEMMA MetadataFollows ==
    ASSUME NEW s, PageShape(s), NEW f
    PROVE  Follows(s, fetchFileMetadata(s, f)) /\ Follows(s, PaneMetadata(s, f))
<1>1. /\ \A r \in {Request("metadata", s.machine, s.path, f)} : r.kind \in Looks
      /\ \A r \in {[Request("metadata", s.machine, s.path, f) EXCEPT !.d = s.selected.of[2]]} :
            r.kind \in Looks
  BY RequestIs DEF Looks
<1>2. Follows(s, fetchFileMetadata(s, f))
  BY <1>1, FetchFollows, FollowsSelf DEF fetchFileMetadata
<1>3. Follows(s, PaneMetadata(s, f))
  BY <1>1, FetchFollows, FollowsSelf DEF PaneMetadata
<1> QED BY <1>2, <1>3

LEMMA DetailFollows ==
    ASSUME NEW s, PageShape(s), NEW f
    PROVE  /\ Follows(s, fetchDeploymentDetail(s, f))
           /\ Follows(s, fetchSelectedDeploymentDetails(s, f))
<1>1. /\ \A r \in {Request("detail", s.machine, None, f)} : r.kind \in Looks
      /\ \A r \in {[Request("deployment", s.machine, None, f) EXCEPT !.d = s.detail]} :
            r.kind \in Looks
  BY RequestIs DEF Looks
<1>2. Follows(s, fetchDeploymentDetail(s, f))
  BY <1>1, FetchFollows DEF fetchDeploymentDetail
<1>3. Follows(s, fetchSelectedDeploymentDetails(s, f))
  BY <1>1, FetchFollows DEF fetchSelectedDeploymentDetails
<1> QED BY <1>2, <1>3

LEMMA HistoryFollows ==
    ASSUME NEW old, NEW s, PageShape(s)
    PROVE  Follows(s, HistoryEffect(old, s)) /\ Follows(s, PaneHistoryEffect(old, s))
<1>1. Follows(s, HistoryEffect(old, s))
  BY DetailFollows, FollowsSelf DEF HistoryEffect
<1>2. Follows(s, PaneHistoryEffect(old, s))
  BY DetailFollows, FollowsSelf DEF PaneHistoryEffect, PaneSelectedDeployment
<1> QED BY <1>1, <1>2

LEMMA SelectionFollows ==
    ASSUME NEW old, NEW s, PageShape(s)
    PROVE  Follows(s, SelectionEffect(old, s))
<1> DEFINE cleared == [s EXCEPT !.fresh = None]
           f == s.selected.f
           previewed == fetchFilePreview(cleared, f)
           asked == fetchFileMetadata(previewed, f)
<1>1. PageShape(cleared) /\ Follows(s, cleared) BY ClearedFollows DEF Follows
<1> HIDE DEF cleared
<1>2. PageShape(asked) /\ Follows(s, asked)
  <2>1. Follows(cleared, previewed) BY <1>1, PreviewFollows
  <2>2. PageShape(previewed) BY <2>1 DEF Follows
  <2> HIDE DEF previewed
  <2>3. Follows(previewed, asked) BY <2>2, MetadataFollows
  <2>4. PageShape(asked) BY <2>3 DEF Follows
  <2> HIDE DEF asked
  <2> QED BY <1>1, <2>1, <2>3, <2>4, FollowsOn
<1> HIDE DEF asked, f
<1>3. Follows(s, [cleared EXCEPT !.preview = None, !.detail = None, !.picked = None])
  <2>1. Follows(cleared, [cleared EXCEPT !.preview = None, !.detail = None, !.picked = None])
    BY <1>1, ClearedFollows
  <2> QED BY <1>1, <2>1, FollowsOn
<1>4. Follows(s, fetchDeploymentDetail([asked EXCEPT !.picked = None], f))
  <2> DEFINE unpicked == [asked EXCEPT !.picked = None]
  <2>1. Follows(asked, unpicked)
    BY <1>2, ClearedFollows
  <2>2. PageShape(unpicked) BY <2>1 DEF Follows
  <2> HIDE DEF unpicked
  <2>3. Follows(unpicked, fetchDeploymentDetail(unpicked, f)) BY <2>2, DetailFollows
  <2> QED BY <1>2, <2>1, <2>3, FollowsOn DEF unpicked
<1>5. Follows(s, [asked EXCEPT !.detail = None, !.picked = None])
  <2>1. Follows(asked, [asked EXCEPT !.detail = None, !.picked = None])
    BY <1>2, ClearedFollows
  <2> QED BY <1>2, <2>1, FollowsOn
<1>6. SelectionEffect(old, s)
        \in {s, [cleared EXCEPT !.preview = None, !.detail = None, !.picked = None],
             fetchDeploymentDetail([asked EXCEPT !.picked = None], f),
             [asked EXCEPT !.detail = None, !.picked = None]}
  BY DEF SelectionEffect, f, asked, cleared
<1> QED BY <1>3, <1>4, <1>5, <1>6, FollowsSelf

LEMMA SelectedIs ==
    ASSUME NEW s, PageShape(s), NEW x
    PROVE  /\ PageShape([s EXCEPT !.selected = x])
           /\ [s EXCEPT !.selected = x].selected = x
           /\ \A k \in Fields \ {"selected"} : [s EXCEPT !.selected = x][k] = s[k]
  BY DEF PageShape, Fields

LEMMA AboutFollows ==
    ASSUME NEW s, PageShape(s)
    PROVE  Follows(s, About(s))
<1> DEFINE cleared == [s EXCEPT !.fresh = None, !.picked = None]
           f == s.selected.f
           previewed == PanePreview(cleared, f)
           asked == PaneMetadata(previewed, f)
<1>1. PageShape(cleared) /\ Follows(s, cleared) BY ClearedFollows DEF Follows
<1> HIDE DEF cleared
<1>2. PageShape(asked) /\ Follows(s, asked)
  <2>1. Follows(cleared, previewed) BY <1>1, PreviewFollows DEF PanePreview
  <2>2. PageShape(previewed) BY <2>1 DEF Follows
  <2> HIDE DEF previewed
  <2>3. Follows(previewed, asked) BY <2>2, MetadataFollows
  <2>4. PageShape(asked) BY <2>3 DEF Follows
  <2> HIDE DEF asked
  <2> QED BY <1>1, <2>1, <2>3, <2>4, FollowsOn
<1> HIDE DEF asked, f
<1>3. Follows(s, [cleared EXCEPT !.preview = None, !.detail = None])
  <2>1. Follows(cleared, [cleared EXCEPT !.preview = None, !.detail = None])
    BY <1>1, ClearedFollows
  <2> QED BY <1>1, <2>1, FollowsOn
<1>4. Follows(s, PaneDetail(asked, f))
  <2>1. Follows(asked, PaneDetail(asked, f)) BY <1>2, DetailFollows DEF PaneDetail
  <2> QED BY <1>2, <2>1, FollowsOn
<1>5. Follows(s, [asked EXCEPT !.detail = None])
  <2>1. Follows(asked, [asked EXCEPT !.detail = None])
    BY <1>2, ClearedFollows
  <2> QED BY <1>2, <2>1, FollowsOn
<1>6. About(s) \in {[cleared EXCEPT !.preview = None, !.detail = None],
                    PaneDetail(asked, f), [asked EXCEPT !.detail = None]}
  BY DEF About, f, asked, cleared
<1> QED BY <1>3, <1>4, <1>5, <1>6

LEMMA PaneSelectionFollows ==
    ASSUME NEW old, NEW s, PageShape(s)
    PROVE  Follows(s, PaneSelectionEffect(old, s))
<1> DEFINE before == [s EXCEPT !.selected = old.selected]
           stray == About(before)
           back == [stray EXCEPT !.selected = s.selected]
           t == IF old.path # s.path /\ old.selected # None THEN back ELSE s
<1>1. Follows(s, back)
  <2>1. /\ PageShape(before)
        /\ \A k \in Fields \ {"selected"} : before[k] = s[k]
    BY SelectedIs
  <2> HIDE DEF before
  <2>2. Follows(before, stray) BY <2>1, AboutFollows
  <2>3. PageShape(stray) BY <2>2 DEF Follows
  <2> HIDE DEF stray
  <2>4. /\ PageShape(back) /\ back.selected = s.selected
        /\ \A k \in Fields \ {"selected"} : back[k] = stray[k]
    BY <2>3 DEF PageShape, Fields
  <2> HIDE DEF back
  <2> QED BY <2>1, <2>2, <2>4 DEF Follows, Core, Fields
<1>2. Follows(s, t) /\ PageShape(t)
  BY <1>1, FollowsSelf DEF Follows
<1>3. PaneSelectionEffect(old, s) = IF t.selected = old.selected THEN t ELSE About(t)
  BY DEF PaneSelectionEffect
<1> HIDE DEF t
<1> QED BY <1>2, <1>3, AboutFollows, FollowsOn

-----------------------------------------------------------------------------
(* The file the address asks for *)

\* A row of s with the file f is selected.
Picks(s, t, f) ==
    /\ PageShape(t)
    /\ \A k \in Fields \ {"selected", "wanted"} : t[k] = s[k]
    /\ ~s.loading /\ f \in Listed(s)
    /\ t.selected = [f |-> f, of |-> s.list.of]

LEMMA PendingPicks ==
    ASSUME NEW old, NEW s, PageShape(s)
    PROVE  \/ PendingEffect(old, s) = s
           \/ /\ Picks(s, PendingEffect(old, s), s.wanted)
              /\ s.wanted # None /\ PendingEffect(old, s).wanted = None
  BY DEF PendingEffect, Picks, PageShape, Fields

LEMMA LinkPicks ==
    ASSUME NEW old, NEW s, PageShape(s)
    PROVE  \/ LinkEffect(old, s) = s
           \/ /\ Picks(s, LinkEffect(old, s), link.f)
              /\ link.f # None /\ LinkEffect(old, s).wanted = s.wanted
  BY DEF LinkEffect, Picks, PageShape, Fields

-----------------------------------------------------------------------------
(* Where one is *)

HereOf(s) == <<s.machine, s.path>>
Located(s) == s.path # None /\ ~s.pathLoading
Shows(of) == [of |-> of, notes |-> {}]

LEMMA AbortIs ==
    ASSUME NEW s, PageShape(s), NEW kinds
    PROVE  /\ PageShape(Abort(s, kinds))
           /\ \A k \in Fields \ {"requests"} : Abort(s, kinds)[k] = s[k]
           /\ Abort(s, kinds).requests = {r \in s.requests : r.kind \notin kinds}
  BY DEF Abort, PageShape, Fields

LEMMA FetchIs ==
    ASSUME NEW s, PageShape(s), NEW rs
    PROVE  /\ PageShape(Fetch(s, rs))
           /\ \A k \in Fields \ {"requests"} : Fetch(s, rs)[k] = s[k]
           /\ Fetch(s, rs).requests = s.requests \cup rs
  BY DEF Fetch, PageShape, Fields

\* The list that is stored is shown, or none until the one asked for is there.
LEMMA ShowProgramsIs ==
    ASSUME NEW s, PageShape(s)
    PROVE  \/ ~Located(s) /\ ShowPrograms(s) = s
           \/ /\ Located(s) /\ PageShape(ShowPrograms(s))
              /\ \A k \in Fields \ {"list", "loading", "error", "selected", "requests"} :
                    ShowPrograms(s)[k] = s[k]
              /\ ShowPrograms(s).selected = None
              /\ \/ /\ ShowPrograms(s).list = Shows(HereOf(s))
                    /\ ShowPrograms(s).loading = FALSE
                    /\ ShowPrograms(s).requests = s.requests
                 \/ /\ ShowPrograms(s).list = NoList
                    /\ ShowPrograms(s).loading = TRUE
                    /\ ShowPrograms(s).requests
                         = s.requests \cup {Request("programs", s.machine, s.path, None)}
<1> DEFINE empty == [s EXCEPT !.list = NoList, !.loading = TRUE, !.error = FALSE, !.selected = None]
           kept == [s EXCEPT !.list = Shows(HereOf(s)), !.loading = FALSE,
                             !.error = FALSE, !.selected = None]
           fetched == Fetch(empty, {Request("programs", s.machine, s.path, None)})
<1>1. ShowPrograms(s) = IF ~Located(s) THEN s ELSE IF HereOf(s) \in store THEN kept ELSE fetched
  BY DEF ShowPrograms, Located, HereOf, Shows
<1>2. /\ PageShape(empty)
      /\ empty.list = NoList /\ empty.loading = TRUE /\ empty.selected = None
      /\ empty.requests = s.requests
      /\ \A k \in Fields \ {"list", "loading", "error", "selected", "requests"} : empty[k] = s[k]
  BY DEF PageShape, Fields
<1>3. /\ PageShape(kept)
      /\ kept.list = Shows(HereOf(s)) /\ kept.loading = FALSE /\ kept.selected = None
      /\ kept.requests = s.requests
      /\ \A k \in Fields \ {"list", "loading", "error", "selected", "requests"} : kept[k] = s[k]
  BY DEF PageShape, Fields
<1> HIDE DEF empty, kept
<1>4. /\ PageShape(fetched)
      /\ fetched.list = NoList /\ fetched.loading = TRUE /\ fetched.selected = None
      /\ fetched.requests = s.requests \cup {Request("programs", s.machine, s.path, None)}
      /\ \A k \in Fields \ {"list", "loading", "error", "selected", "requests"} : fetched[k] = s[k]
  BY <1>2, FetchIs DEF Fields
<1> HIDE DEF fetched
<1> QED BY <1>1, <1>3, <1>4

-----------------------------------------------------------------------------
(* The list and what it waits for: the invariant of both screens *)

ListShape(s) ==
    /\ s.list = [of |-> s.list.of, notes |-> s.list.notes]
    /\ s.list.of = NoList.of => s.list = NoList

\* What is asked for while the path is known is for that path.
AsksMatch(s) ==
    Located(s) => \A r \in s.requests : r.kind = "programs" => <<r.m, r.p>> = HereOf(s)

\* On the page, the rows and the selected file are of the path.
RowsMatch(s) ==
    Located(s) =>
      /\ s.list.of \in {HereOf(s), NoList.of}
      /\ s.selected # None => s.selected.of = HereOf(s)

PathDue(s) ==
    /\ \A r \in s.requests : r.kind = "path" => r.m \in Machines
    /\ s.machine # None /\ ~s.pathLoading => s.path # None
    /\ s.machine # None /\ s.pathLoading => \E r \in s.requests : r.kind = "path" /\ r.m = s.machine

ListDue(s, onPage) ==
    s.machine # None /\ ~s.pathLoading =>
      \/ \E r \in s.requests : r.kind = "programs" /\ s.loading /\ <<r.m, r.p>> = HereOf(s)
      \/ ~s.loading /\ (s.error \/ ~onPage \/ s.list.of = HereOf(s))

\* What a state needs before the effects, and what holds after them.
Ready(s) == PageShape(s) /\ ListShape(s) /\ PathDue(s)

FileInv(s, onPage) ==
    Ready(s) /\ AsksMatch(s) /\ (onPage => RowsMatch(s)) /\ ListDue(s, onPage)

\* A step that leaves the list and what it waits for alone.
Quiet(s, t, onPage) ==
    /\ PageShape(t)
    /\ t.machine = s.machine /\ t.path = s.path /\ t.pathLoading = s.pathLoading
    /\ t.loading = s.loading /\ t.selected = s.selected
    /\ ListShape(t) /\ t.list.of = s.list.of
    /\ onPage => (s.error => t.error)
    /\ \A r : r.kind = "programs" => (r \in s.requests <=> r \in t.requests)
    /\ \A r \in t.requests : r.kind = "path" => r \in s.requests
    /\ s.pathLoading => \A r \in s.requests : r.kind = "path" => r \in t.requests

LEMMA QuietKeeps ==
    ASSUME NEW onPage, NEW s, NEW t, FileInv(s, onPage), Quiet(s, t, onPage)
    PROVE  FileInv(t, onPage)
<1>1. Ready(t)
  BY DEF FileInv, Ready, Quiet, PathDue
<1>2. AsksMatch(t)
  BY DEF FileInv, Quiet, AsksMatch, Located, HereOf
<1>3. onPage => RowsMatch(t)
  BY DEF FileInv, Quiet, RowsMatch, Located, HereOf
<1>4. ListDue(t, onPage)
  BY DEF FileInv, Quiet, ListDue, HereOf
<1> QED BY <1>1, <1>2, <1>3, <1>4 DEF FileInv

LEMMA FollowsKeeps ==
    ASSUME NEW onPage, NEW s, NEW t, FileInv(s, onPage), Follows(s, t)
    PROVE  FileInv(t, onPage)
<1>1. Quiet(s, t, onPage)
  BY DEF Follows, Core, Looks, Quiet, FileInv, Ready, ListShape
<1> QED BY <1>1, QuietKeeps

\* A row that is there is of the path, or the path is not known.
LEMMA PicksKeeps ==
    ASSUME NEW onPage, NEW s, NEW t, NEW f, FileInv(s, onPage), Picks(s, t, f)
    PROVE  FileInv(t, onPage)
<1>0. /\ PageShape(t) /\ t.machine = s.machine /\ t.path = s.path
      /\ t.pathLoading = s.pathLoading /\ t.list = s.list /\ t.loading = s.loading
      /\ t.error = s.error /\ t.requests = s.requests
      /\ t.selected = [f |-> f, of |-> s.list.of]
  BY DEF Picks, Fields
<1>1. Ready(t) /\ AsksMatch(t) /\ ListDue(t, onPage)
  BY <1>0 DEF FileInv, Ready, ListShape, PathDue, AsksMatch, ListDue, Located, HereOf
<1>2. s.list.of # NoList.of
  BY DEF Picks, Listed, FileInv, Ready, ListShape
<1>3. onPage => RowsMatch(t)
  BY <1>0, <1>2 DEF FileInv, RowsMatch, Located, HereOf
<1> QED BY <1>1, <1>3 DEF FileInv

\* A list is shown for the path, or asked for.
LEMMA ShownKeeps ==
    ASSUME NEW onPage, NEW s, Ready(s), \A r \in s.requests : r.kind # "programs"
    PROVE  FileInv(ShowPrograms(s), onPage)
<1> DEFINE t == ShowPrograms(s)
<1>1. CASE ~Located(s) /\ t = s
  <2>1. AsksMatch(s) /\ RowsMatch(s) BY <1>1 DEF AsksMatch, RowsMatch
  <2>2. ListDue(s, onPage) BY <1>1 DEF Ready, PathDue, ListDue, Located
  <2> QED BY <1>1, <2>1, <2>2 DEF FileInv
<1>2. ASSUME Located(s), PageShape(t), t.selected = None,
             \A k \in Fields \ {"list", "loading", "error", "selected", "requests"} : t[k] = s[k],
             \/ t.list = Shows(HereOf(s)) /\ t.loading = FALSE /\ t.requests = s.requests
             \/ /\ t.list = NoList /\ t.loading = TRUE
                /\ t.requests = s.requests \cup {Request("programs", s.machine, s.path, None)}
      PROVE  FileInv(t, onPage)
  <2> HIDE DEF t
  <2>1. t.machine = s.machine /\ t.path = s.path /\ t.pathLoading = s.pathLoading
    BY <1>2 DEF Fields
  <2>2. Located(t) /\ HereOf(t) = HereOf(s)
    BY <1>2, <2>1 DEF Located, HereOf
  <2>3. PathDue(t)
    <3>1. Request("programs", s.machine, s.path, None).kind # "path" BY RequestIs
    <3>2. \A r \in t.requests : r.kind = "path" => r \in s.requests BY <1>2, <3>1
    <3> QED BY <2>1, <2>2, <3>2 DEF Ready, PathDue, Located
  <2>4. CASE t.list = Shows(HereOf(s)) /\ t.loading = FALSE /\ t.requests = s.requests
    <3>1. t.list.of = HereOf(s) /\ ListShape(t)
      BY <2>4 DEF Shows, ListShape, NoList
    <3>2. AsksMatch(t) /\ RowsMatch(t) /\ ListDue(t, onPage)
      BY <1>2, <2>2, <2>4, <3>1 DEF AsksMatch, RowsMatch, ListDue
    <3> QED BY <1>2, <2>3, <3>1, <3>2 DEF FileInv, Ready
  <2>5. CASE /\ t.list = NoList /\ t.loading = TRUE
             /\ t.requests = s.requests \cup {Request("programs", s.machine, s.path, None)}
    <3>1. ListShape(t)
      BY <2>5 DEF ListShape, NoList
    <3> DEFINE r == Request("programs", s.machine, s.path, None)
    <3>2. r.kind = "programs" /\ <<r.m, r.p>> = HereOf(s)
      BY RequestIs DEF HereOf
    <3> HIDE DEF r
    <3>3. t.requests = s.requests \cup {r} BY <2>5 DEF r
    <3>4. AsksMatch(t) /\ RowsMatch(t) /\ ListDue(t, onPage)
      BY <1>2, <2>2, <2>5, <3>2, <3>3 DEF AsksMatch, RowsMatch, ListDue
    <3> QED BY <1>2, <2>3, <3>1, <3>4 DEF FileInv, Ready
  <2> QED BY <1>2, <2>4, <2>5
<1> QED BY <1>1, <1>2, ShowProgramsIs DEF Ready

\* The effect that looks for the list of another path.
LEMMA ProgramsKeep ==
    ASSUME NEW onPage, NEW old, NEW s, Ready(s),
           <<s.machine, s.path, s.pathLoading>> = <<old.machine, old.path, old.pathLoading>>
             => FileInv(s, onPage)
    PROVE  FileInv(ProgramsEffect(old, s), onPage)
<1> DEFINE a == Abort(s, {"programs"})
<1>1. Ready(a) /\ \A r \in a.requests : r.kind # "programs"
  <2>1. PageShape(a) BY AbortIs DEF Ready
  <2>2. /\ a.machine = s.machine /\ a.path = s.path /\ a.pathLoading = s.pathLoading
        /\ a.list = s.list
        /\ a.requests = {r \in s.requests : r.kind \notin {"programs"}}
    BY AbortIs DEF Ready, Fields
  <2> HIDE DEF a
  <2> QED BY <2>1, <2>2 DEF Ready, ListShape, PathDue
<1>2. FileInv(ShowPrograms(a), onPage) BY <1>1, ShownKeeps
<1>3. ProgramsEffect(old, s) = ShowPrograms(a)
      \/ /\ ProgramsEffect(old, s) = s
         /\ <<s.machine, s.path, s.pathLoading>> = <<old.machine, old.path, old.pathLoading>>
  BY DEF ProgramsEffect
<1> QED BY <1>2, <1>3

LEMMA PickedKeeps ==
    ASSUME NEW onPage, NEW old, NEW s, FileInv(s, onPage)
    PROVE  FileInv(PendingEffect(old, s), onPage) /\ FileInv(LinkEffect(old, s), onPage)
<1>1. FileInv(PendingEffect(old, s), onPage)
  BY PendingPicks, PicksKeeps DEF FileInv, Ready
<1>2. FileInv(LinkEffect(old, s), onPage)
  BY LinkPicks, PicksKeeps DEF FileInv, Ready
<1> QED BY <1>1, <1>2

\* What follows from a list does not disturb it, on either screen.
LEMMA EffectsKeep ==
    ASSUME NEW onPage, NEW old, NEW a, FileInv(a, onPage)
    PROVE  /\ FileInv(HistoryEffect(old, SelectionEffect(old, PendingEffect(old, a))), onPage)
           /\ FileInv(PaneHistoryEffect(old, PaneSelectionEffect(old, LinkEffect(old, a))), onPage)
<1>1. FileInv(HistoryEffect(old, SelectionEffect(old, PendingEffect(old, a))), onPage)
  <2> DEFINE b == PendingEffect(old, a)
             c == SelectionEffect(old, b)
  <2>1. FileInv(b, onPage) BY PickedKeeps
  <2> HIDE DEF b
  <2>2. FileInv(c, onPage)
    BY <2>1, SelectionFollows, FollowsKeeps DEF FileInv, Ready
  <2> HIDE DEF c
  <2>3. FileInv(HistoryEffect(old, c), onPage)
    BY <2>2, HistoryFollows, FollowsKeeps DEF FileInv, Ready
  <2> QED BY <2>3 DEF c, b
<1>2. FileInv(PaneHistoryEffect(old, PaneSelectionEffect(old, LinkEffect(old, a))), onPage)
  <2> DEFINE b == LinkEffect(old, a)
             c == PaneSelectionEffect(old, b)
  <2>1. FileInv(b, onPage) BY PickedKeeps
  <2> HIDE DEF b
  <2>2. FileInv(c, onPage)
    BY <2>1, PaneSelectionFollows, FollowsKeeps DEF FileInv, Ready
  <2> HIDE DEF c
  <2>3. FileInv(PaneHistoryEffect(old, c), onPage)
    BY <2>2, HistoryFollows, FollowsKeeps DEF FileInv, Ready
  <2> QED BY <2>3 DEF c, b
<1> QED BY <1>1, <1>2

LEMMA RenderKeeps ==
    ASSUME NEW onPage, NEW old, NEW s, Ready(s),
           <<s.machine, s.path, s.pathLoading>> = <<old.machine, old.path, old.pathLoading>>
             => FileInv(s, onPage)
    PROVE  FileInv(Render(old, s), onPage) /\ FileInv(PaneRender(old, s), onPage)
<1> DEFINE a == ProgramsEffect(old, s)
<1>1. FileInv(a, onPage) BY ProgramsKeep
<1>2. /\ Render(old, s) = HistoryEffect(old, SelectionEffect(old, PendingEffect(old, a)))
      /\ PaneRender(old, s) = PaneHistoryEffect(old, PaneSelectionEffect(old, LinkEffect(old, a)))
  BY DEF Render, PaneRender, PaneProgramsEffect
<1> HIDE DEF a
<1> QED BY <1>1, <1>2, EffectsKeep

LEMMA EffectsStay ==
    ASSUME NEW old, NEW a, PageShape(a)
    PROVE  LET t == PaneHistoryEffect(old, PaneSelectionEffect(old, LinkEffect(old, a)))
           IN  /\ PageShape(t) /\ t.machine = a.machine /\ t.path = a.path
               /\ t.pathLoading = a.pathLoading /\ t.list = a.list
<1> DEFINE b == LinkEffect(old, a)
           c == PaneSelectionEffect(old, b)
           t == PaneHistoryEffect(old, c)
<1>1. /\ PageShape(b) /\ b.machine = a.machine /\ b.path = a.path
      /\ b.pathLoading = a.pathLoading /\ b.list = a.list
  <2>1. b = a \/ Picks(a, b, link.f) BY LinkPicks
  <2> HIDE DEF b
  <2> QED BY <2>1 DEF Picks, Fields
<1> HIDE DEF b
<1>2. Follows(b, c) /\ PageShape(c) BY <1>1, PaneSelectionFollows DEF Follows
<1> HIDE DEF c
<1>3. Follows(c, t) /\ PageShape(t) BY <1>2, HistoryFollows DEF Follows
<1> HIDE DEF t
<1> QED BY <1>1, <1>2, <1>3 DEF Follows, Core, t, c, b

\* The effects show another list only where one is, or none.
LEMMA ProgramsIs ==
    ASSUME NEW old, NEW s, PageShape(s)
    PROVE  LET a == ProgramsEffect(old, s)
           IN  /\ PageShape(a) /\ HereOf(a) = HereOf(s) /\ a.pathLoading = s.pathLoading
               /\ a.list.of \in {s.list.of, HereOf(s), NoList.of}
<1> DEFINE x == Abort(s, {"programs"})
           y == ShowPrograms(x)
           a == ProgramsEffect(old, s)
<1>1. PageShape(x) /\ HereOf(x) = HereOf(s) /\ x.pathLoading = s.pathLoading /\ x.list = s.list
  BY AbortIs DEF HereOf, Fields
<1> HIDE DEF x
<1>2. /\ PageShape(y) /\ HereOf(y) = HereOf(x) /\ y.pathLoading = x.pathLoading
      /\ y.list.of \in {x.list.of, HereOf(x), NoList.of}
  <2>1. \/ y = x
        \/ /\ PageShape(y)
           /\ \A k \in Fields \ {"list", "loading", "error", "selected", "requests"} : y[k] = x[k]
           /\ y.list = Shows(HereOf(x)) \/ y.list = NoList
    BY <1>1, ShowProgramsIs
  <2> HIDE DEF y
  <2>2. \/ y = x
        \/ /\ PageShape(y) /\ y.machine = x.machine /\ y.path = x.path
           /\ y.pathLoading = x.pathLoading
           /\ y.list = Shows(HereOf(x)) \/ y.list = NoList
    BY <2>1 DEF Fields
  <2> QED BY <1>1, <2>2 DEF HereOf, Shows
<1>3. a = s \/ a = y BY DEF ProgramsEffect, x
<1> HIDE DEF a, y
<1> QED BY <1>1, <1>2, <1>3 DEF a

LEMMA PaneRenderIs ==
    ASSUME NEW old, NEW s, PageShape(s)
    PROVE  LET t == PaneRender(old, s)
           IN  /\ HereOf(t) = HereOf(s) /\ t.pathLoading = s.pathLoading
               /\ t.list.of \in {s.list.of, HereOf(s), NoList.of}
<1> DEFINE a == ProgramsEffect(old, s)
           t == PaneRender(old, s)
<1>1. /\ PageShape(a) /\ HereOf(a) = HereOf(s) /\ a.pathLoading = s.pathLoading
      /\ a.list.of \in {s.list.of, HereOf(s), NoList.of}
  BY ProgramsIs
<1>2. t = PaneHistoryEffect(old, PaneSelectionEffect(old, LinkEffect(old, a)))
  BY DEF PaneRender, PaneProgramsEffect
<1> HIDE DEF a, t
<1>3. t.machine = a.machine /\ t.path = a.path /\ t.pathLoading = a.pathLoading /\ t.list = a.list
  BY <1>1, <1>2, EffectsStay
<1> QED BY <1>1, <1>3 DEF HereOf, t

\* From the state of a pane to t, no list of another place has come.
Moves(t) ==
    /\ t.machine = page.machine
    /\ t.list.of \in {page.list.of, HereOf(t), NoList.of}
    /\ ~page.pathLoading => ~t.pathLoading

\* After its effects a state is as it should be, on either screen.
Renders(s, onPage) ==
    /\ FileInv(Render(page, s), onPage) /\ FileInv(PaneRender(page, s), onPage)
    /\ Moves(PaneRender(page, s))

LEMMA RendersIf ==
    ASSUME NEW onPage, NEW s, Ready(s),
           <<s.machine, s.path, s.pathLoading>> = <<page.machine, page.path, page.pathLoading>>
             => FileInv(s, onPage),
           s.machine = page.machine, s.list.of = page.list.of,
           ~page.pathLoading => ~s.pathLoading
    PROVE  Renders(s, onPage)
<1> DEFINE t == PaneRender(page, s)
<1>1. FileInv(Render(page, s), onPage) /\ FileInv(t, onPage) BY RenderKeeps
<1>2. /\ HereOf(t) = HereOf(s) /\ t.pathLoading = s.pathLoading
      /\ t.list.of \in {s.list.of, HereOf(s), NoList.of}
  BY PaneRenderIs DEF Ready
<1> HIDE DEF t
<1>3. Moves(t) BY <1>2 DEF Moves, HereOf
<1> QED BY <1>1, <1>3 DEF Renders, t

LEMMA QuietRenders ==
    ASSUME NEW onPage, NEW s, FileInv(page, onPage), Quiet(page, s, onPage)
    PROVE  Renders(s, onPage)
<1>1. FileInv(s, onPage) BY QuietKeeps
<1> QED BY <1>1, RendersIf DEF FileInv, Quiet

-----------------------------------------------------------------------------
(* The file of the address, while the user does nothing *)

Early == {"machines", "path", "programs", "badges"}

\* Nothing but what shows f has been asked for, each once, and nothing else is
\* selected.
Calm(s, f, onPage) ==
    /\ PageShape(s)
    /\ s.machine \in Machines \cup {None} /\ s.path \in Paths \cup {None} /\ f # None
    /\ \A r \in s.requests : r.kind \in Early \cup Looks
    /\ \A r \in s.requests : r.kind = "machines" =>
          r = Request("machines", None, None, None) /\ s.machine = None
    /\ \A r \in s.requests : r.kind = "path" =>
          r = Request("path", s.machine, None, None) /\ s.pathLoading /\ s.machine # None
    /\ \A r \in s.requests : r.kind = "programs" =>
          r = Request("programs", s.machine, s.path, None) /\ s.loading /\ s.path # None
    /\ s.pathLoading \/ s.machine = None => s.path = None
    /\ s.path = None => ~s.loading
    /\ s.path = None \/ s.loading => s.list = NoList /\ s.selected = None
    /\ s.list = NoList \/ s.list.of = HereOf(s)
    /\ onPage /\ s.machine # None /\ s.selected = None => s.wanted = f
    /\ s.wanted \in {None, f}
    /\ s.selected # None => s.selected.f = f

LinkInv(s, f, onPage) == Calm(s, f, onPage) /\ (f \in Listed(s) => s.selected # None)

LEMMA CalmFollows ==
    ASSUME NEW f, NEW onPage, NEW s, LinkInv(s, f, onPage), NEW t, Follows(s, t)
    PROVE  LinkInv(t, f, onPage)
<1>1. /\ PageShape(t) /\ t.machine = s.machine /\ t.path = s.path
      /\ t.pathLoading = s.pathLoading /\ t.list = s.list /\ t.loading = s.loading
      /\ t.selected = s.selected /\ t.wanted = s.wanted
      /\ \A r \in t.requests : r \in s.requests \/ r.kind \in Looks
  BY DEF Follows, Core
<1>2. \A r \in t.requests : r.kind \in Early => r \in s.requests
  BY <1>1 DEF Early, Looks
<1>3. Calm(t, f, onPage)
  BY <1>1, <1>2 DEF LinkInv, Calm, HereOf, Early
<1> QED BY <1>1, <1>3 DEF LinkInv, Listed

LEMMA CalmListed ==
    ASSUME NEW f, NEW onPage, NEW s, Calm(s, f, onPage), f \in Listed(s)
    PROVE  /\ s.machine # None /\ s.path # None /\ ~s.loading
           /\ IsFiniteSet(Listed(s)) /\ [f |-> f, of |-> s.list.of] # None
<1>1. s.list # NoList /\ Listed(s) = Disk[s.list.of[1]][s.list.of[2]] BY DEF Listed
<1>2. s.path # None /\ ~s.loading /\ s.machine # None /\ s.list.of = HereOf(s)
  BY <1>1 DEF Calm
<1>3. s.machine \in Machines /\ s.path \in Paths BY <1>2 DEF Calm
<1>4. Listed(s) = Disk[s.machine][s.path] /\ s.list.of = <<s.machine, s.path>>
  BY <1>1, <1>2 DEF HereOf
<1> QED BY <1>2, <1>3, <1>4, DiskAssumption

LEMMA CalmPicks ==
    ASSUME NEW f, NEW onPage, NEW s, Calm(s, f, onPage), NEW t, Picks(s, t, f),
           t.wanted \in {None, s.wanted}
    PROVE  LinkInv(t, f, onPage)
<1>1. /\ PageShape(t) /\ t.machine = s.machine /\ t.path = s.path
      /\ t.pathLoading = s.pathLoading /\ t.list = s.list /\ t.loading = s.loading
      /\ t.requests = s.requests /\ t.selected = [f |-> f, of |-> s.list.of]
  BY DEF Picks, Fields
<1>2. f \in Listed(s) BY DEF Picks
<1>3. s.path # None /\ ~s.loading /\ t.selected # None /\ t.selected.f = f
  BY <1>1, <1>2, CalmListed
<1>4. Calm(t, f, onPage) BY <1>1, <1>3 DEF Calm, HereOf
<1> QED BY <1>3, <1>4 DEF LinkInv

\* A list that has just come is looked through.
LEMMA Counted ==
    ASSUME NEW f, NEW onPage, NEW s, Calm(s, f, onPage), f \in Listed(s), NEW old, Listed(old) = {}
    PROVE  Cardinality(Listed(old)) # Cardinality(Listed(s))
<1>1. IsFiniteSet(Listed(s)) BY CalmListed
<1>2. Cardinality(Listed(s)) # 0 BY <1>1, FS_EmptySet
<1> QED BY <1>2, FS_EmptySet

LEMMA PendingFinds ==
    ASSUME NEW f, NEW s, Calm(s, f, TRUE), NEW old,
           LinkInv(s, f, TRUE) \/ (old.loading /\ ~s.loading) \/ Listed(old) = {}
    PROVE  LinkInv(PendingEffect(old, s), f, TRUE)
<1> DEFINE t == PendingEffect(old, s)
<1>1. PageShape(s) BY DEF Calm
<1>2. CASE t = s /\ f \in Listed(s) /\ s.selected = None
  <2>1. s.machine # None /\ ~s.loading BY <1>2, CalmListed
  <2>2. s.wanted = f /\ f # None BY <1>2, <2>1 DEF Calm
  <2>3. old.loading # s.loading \/ Cardinality(Listed(old)) # Cardinality(Listed(s))
    BY <1>2, <2>1, Counted DEF LinkInv
  <2>4. t.selected = [f |-> f, of |-> s.list.of]
    BY <1>1, <1>2, <2>1, <2>2, <2>3 DEF PendingEffect, PageShape, Fields
  <2>5. t.selected # None BY <1>2, <2>4, CalmListed
  <2> QED BY <1>2, <2>5
<1>3. CASE t = s /\ ~(f \in Listed(s) /\ s.selected = None)
  BY <1>3 DEF LinkInv
<1>4. CASE Picks(s, t, s.wanted) /\ s.wanted # None /\ t.wanted = None
  <2>1. s.wanted = f BY <1>4 DEF Calm
  <2> QED BY <1>4, <2>1, CalmPicks
<1> QED BY <1>1, <1>2, <1>3, <1>4, PendingPicks

LEMMA LinkFinds ==
    ASSUME NEW s, Calm(s, link.f, FALSE), NEW old,
           LinkInv(s, link.f, FALSE) \/ (old.loading /\ ~s.loading) \/ Listed(old) = {}
    PROVE  LinkInv(LinkEffect(old, s), link.f, FALSE)
<1> DEFINE t == LinkEffect(old, s)
           f == link.f
<1>1. PageShape(s) BY DEF Calm
<1>2. CASE t = s /\ f \in Listed(s) /\ s.selected = None
  <2>1. s.machine # None /\ ~s.loading BY <1>2, CalmListed
  <2>2. f # None BY DEF Calm
  <2>3. old.loading # s.loading \/ Cardinality(Listed(old)) # Cardinality(Listed(s))
    BY <1>2, <2>1, Counted DEF LinkInv
  <2>4. t.selected = [f |-> f, of |-> s.list.of]
    BY <1>1, <1>2, <2>1, <2>2, <2>3 DEF LinkEffect, PageShape, Fields
  <2>5. t.selected # None BY <1>2, <2>4, CalmListed
  <2> QED BY <1>2, <2>5
<1>3. CASE t = s /\ ~(f \in Listed(s) /\ s.selected = None)
  BY <1>3 DEF LinkInv
<1>4. CASE Picks(s, t, f) /\ t.wanted = s.wanted
  BY <1>4, CalmPicks
<1> QED BY <1>1, <1>2, <1>3, <1>4, LinkPicks

\* What follows from a list finds the file in it.
LEMMA EffectsFind ==
    ASSUME NEW f, NEW s, Calm(s, f, TRUE), NEW old,
           LinkInv(s, f, TRUE) \/ (old.loading /\ ~s.loading) \/ Listed(old) = {}
    PROVE  LinkInv(HistoryEffect(old, SelectionEffect(old, PendingEffect(old, s))), f, TRUE)
<1> DEFINE b == PendingEffect(old, s)
           c == SelectionEffect(old, b)
<1>1. LinkInv(b, f, TRUE) BY PendingFinds
<1> HIDE DEF b
<1>2. LinkInv(c, f, TRUE)
  <2>1. PageShape(b) BY <1>1 DEF LinkInv, Calm
  <2>2. Follows(b, c) BY <2>1, SelectionFollows
  <2> QED BY <1>1, <2>2, CalmFollows
<1> HIDE DEF c
<1>3. LinkInv(HistoryEffect(old, c), f, TRUE)
  BY <1>2, HistoryFollows, CalmFollows DEF LinkInv, Calm
<1> QED BY <1>3 DEF c, b

LEMMA PaneEffectsFind ==
    ASSUME NEW s, Calm(s, link.f, FALSE), NEW old,
           LinkInv(s, link.f, FALSE) \/ (old.loading /\ ~s.loading) \/ Listed(old) = {}
    PROVE  LinkInv(PaneHistoryEffect(old, PaneSelectionEffect(old, LinkEffect(old, s))),
                   link.f, FALSE)
<1> DEFINE b == LinkEffect(old, s)
           c == PaneSelectionEffect(old, b)
<1>1. LinkInv(b, link.f, FALSE) BY LinkFinds
<1> HIDE DEF b
<1>2. LinkInv(c, link.f, FALSE) BY <1>1, PaneSelectionFollows, CalmFollows DEF LinkInv, Calm
<1> HIDE DEF c
<1>3. LinkInv(PaneHistoryEffect(old, c), link.f, FALSE)
  BY <1>2, HistoryFollows, CalmFollows DEF LinkInv, Calm
<1> QED BY <1>3 DEF c, b

\* An answer that leaves the list alone asks for nothing.
Same(s, t) ==
    /\ t.machine = s.machine /\ t.path = s.path /\ t.pathLoading = s.pathLoading
    /\ t.refresh = s.refresh /\ t.loading = s.loading /\ t.selected = s.selected
    /\ t.wanted = s.wanted /\ t.list.of = s.list.of /\ (t.list = NoList <=> s.list = NoList)
    /\ t.requests \subseteq s.requests
    /\ PageShape(t)

LEMMA SameCalm ==
    ASSUME NEW f, NEW onPage, NEW s, LinkInv(s, f, onPage), NEW t, Same(s, t)
    PROVE  LinkInv(t, f, onPage)
<1>1. Calm(t, f, onPage)
  BY DEF LinkInv, Calm, Same, HereOf
<1>2. Listed(t) = Listed(s) BY DEF Same, Listed
<1> QED BY <1>1, <1>2 DEF LinkInv, Same

\* The file of the address stays where it is.
LinkKept(s) ==
    /\ LinkInv(page, link.f, TRUE) => LinkInv(Render(page, s), link.f, TRUE)
    /\ LinkInv(page, link.f, FALSE) => LinkInv(PaneRender(page, s), link.f, FALSE)

Settles(s, onPage) == Renders(s, onPage) /\ LinkKept(s)

LEMMA SameSettles ==
    ASSUME NEW onPage, NEW s, FileInv(page, onPage), Quiet(page, s, onPage), Same(page, s)
    PROVE  Settles(s, onPage)
<1>1. ProgramsEffect(page, s) = s BY DEF ProgramsEffect, Same
<1>2. ASSUME LinkInv(page, link.f, TRUE)
      PROVE  LinkInv(Render(page, s), link.f, TRUE)
  <2>1. LinkInv(s, link.f, TRUE) BY <1>2, SameCalm
  <2>2. Calm(s, link.f, TRUE) BY <2>1 DEF LinkInv
  <2>3. LinkInv(HistoryEffect(page, SelectionEffect(page, PendingEffect(page, s))), link.f, TRUE)
    BY <2>1, <2>2, EffectsFind
  <2> QED BY <1>1, <2>3 DEF Render
<1>3. ASSUME LinkInv(page, link.f, FALSE)
      PROVE  LinkInv(PaneRender(page, s), link.f, FALSE)
  <2>1. LinkInv(s, link.f, FALSE) BY <1>3, SameCalm
  <2>2. Calm(s, link.f, FALSE) BY <2>1 DEF LinkInv
  <2>3. LinkInv(PaneHistoryEffect(page, PaneSelectionEffect(page, LinkEffect(page, s))),
                link.f, FALSE)
    BY <2>1, <2>2, PaneEffectsFind
  <2> QED BY <1>1, <2>3 DEF PaneRender, PaneProgramsEffect
<1>4. LinkKept(s) BY <1>2, <1>3 DEF LinkKept
<1> QED BY <1>4, QuietRenders DEF Settles

\* Another machine is chosen: its path is on its way.
LEMMA MachineReady ==
    ASSUME NEW s, Ready(s), NEW m \in Machines, link.m \in Machines \cup {None}, NEW onPage
    PROVE  FileInv(MachineEffects(s, m), onPage)
<1> DEFINE to == DeepLink(m)
           a == Abort(s, {"programs"})
           b == [a EXCEPT !.machine = m]
           shown == ShowPrograms(b)
           t == Abort(shown, {"path", "programs", "badges"})
           wanted == IF link.m # None /\ link.f # None THEN link.f ELSE t.wanted
           u == [t EXCEPT !.machine = to, !.path = None, !.pathLoading = TRUE,
                  !.wanted = wanted]
           rs == {Request("path", to, None, None), Request("badges", to, None, None)}
<1>1. PageShape(a) /\ a.list = s.list
  BY AbortIs DEF Ready, Fields
<1> HIDE DEF a
<1>2. PageShape(b) /\ b.list = s.list
  BY <1>1 DEF PageShape, Fields
<1> HIDE DEF b
<1>3. PageShape(shown) /\ ListShape(shown)
  <2>1. shown = b \/ (PageShape(shown) /\ (shown.list = NoList \/ shown.list = Shows(HereOf(b))))
    BY <1>2, ShowProgramsIs
  <2> HIDE DEF shown
  <2> QED BY <1>2, <2>1 DEF Ready, ListShape, NoList, Shows
<1> HIDE DEF shown
<1>4. /\ PageShape(t) /\ t.list = shown.list
      /\ \A r \in t.requests : r.kind # "path"
  BY <1>3, AbortIs DEF Fields
<1>a. to \in Machines BY DEF DeepLink
<1> HIDE DEF t, wanted, to
<1>5. /\ PageShape(u) /\ u.list = shown.list /\ u.requests = t.requests
      /\ u.machine = to /\ u.path = None /\ u.pathLoading = TRUE
  BY <1>4 DEF PageShape, Fields
<1> HIDE DEF u
<1> DEFINE v == Fetch(u, rs)
<1>6. /\ PageShape(v) /\ v.list = shown.list
      /\ v.machine = to /\ v.path = None /\ v.pathLoading = TRUE
      /\ v.requests = u.requests \cup rs
  BY <1>5, FetchIs DEF Fields
<1>7. MachineEffects(s, m) = v
  BY DEF MachineEffects, v, u, t, wanted, shown, b, a, to
<1>8. /\ \E r \in v.requests : r.kind = "path" /\ r.m = v.machine
      /\ \A r \in v.requests : r.kind = "path" => r.m \in Machines
  <2> HIDE DEF v
  <2>1. Request("path", to, None, None) \in v.requests BY <1>6
  <2>2. \A r \in rs : r.m = to BY RequestIs
  <2> QED BY <2>1, <2>2, <1>4, <1>5, <1>6, <1>a, RequestIs
<1> HIDE DEF v
<1> QED BY <1>3, <1>6, <1>7, <1>8
        DEF FileInv, Ready, ListShape, PathDue, AsksMatch, RowsMatch, ListDue, Located

-----------------------------------------------------------------------------
(* Answers *)

LEMMA DoneIs ==
    ASSUME NEW s, PageShape(s), NEW r
    PROVE  /\ PageShape(Done(s, r))
           /\ \A k \in Fields \ {"requests"} : Done(s, r)[k] = s[k]
           /\ Done(s, r).requests = s.requests \ {r}
  BY DEF Done, PageShape, Fields

\* What an answer about the selected file may change.
Beside(s, t) ==
    /\ PageShape(t)
    /\ \A k \in {"machine", "path", "pathLoading", "list", "loading", "selected", "requests",
                 "wanted", "refresh"} : t[k] = s[k]

LEMMA DoneQuiet ==
    ASSUME NEW onPage, NEW s, FileInv(s, onPage), NEW r, r.kind \notin {"programs", "path"},
           NEW t, Beside(Done(s, r), t), onPage => (s.error => t.error)
    PROVE  Quiet(s, t, onPage)
<1>1. /\ Done(s, r).machine = s.machine /\ Done(s, r).path = s.path
      /\ Done(s, r).pathLoading = s.pathLoading /\ Done(s, r).list = s.list
      /\ Done(s, r).loading = s.loading /\ Done(s, r).selected = s.selected
      /\ Done(s, r).requests = s.requests \ {r}
  BY DoneIs DEF FileInv, Ready, Fields
<1>2. /\ t.machine = s.machine /\ t.path = s.path
      /\ t.pathLoading = s.pathLoading /\ t.list = s.list
      /\ t.loading = s.loading /\ t.selected = s.selected
      /\ t.requests = s.requests \ {r}
  BY <1>1 DEF Beside
<1> QED BY <1>2 DEF Quiet, Beside, FileInv, Ready, ListShape

\* A list arrives, or the error that takes its place.
LEMMA ListArrives ==
    ASSUME NEW onPage, NEW s, FileInv(s, onPage), NEW r \in s.requests, r.kind = "programs",
           NEW ok \in BOOLEAN
    PROVE  FileInv([Done(s, r) EXCEPT !.loading = FALSE,
                      !.list = IF ok THEN [of |-> <<r.m, r.p>>, notes |-> {}] ELSE @,
                      !.error = IF ok THEN @ ELSE TRUE], onPage)
<1> DEFINE d == Done(s, r)
           t == [d EXCEPT !.loading = FALSE,
                      !.list = IF ok THEN [of |-> <<r.m, r.p>>, notes |-> {}] ELSE @,
                      !.error = IF ok THEN @ ELSE TRUE]
<1>1. /\ PageShape(d) /\ d.list = s.list /\ d.error = s.error
      /\ d.machine = s.machine /\ d.path = s.path /\ d.pathLoading = s.pathLoading
      /\ d.selected = s.selected /\ d.requests = s.requests \ {r}
  BY DoneIs DEF FileInv, Ready, Fields
<1> HIDE DEF d
<1>2. /\ PageShape(t) /\ t.loading = FALSE
      /\ t.list = (IF ok THEN Shows(<<r.m, r.p>>) ELSE d.list)
      /\ t.error = (IF ok THEN d.error ELSE TRUE)
      /\ t.machine = d.machine /\ t.path = d.path /\ t.pathLoading = d.pathLoading
      /\ t.selected = d.selected /\ t.requests = d.requests
  BY <1>1 DEF PageShape, Fields, Shows
<1> HIDE DEF t
<1>3. Located(t) = Located(s) /\ HereOf(t) = HereOf(s)
  BY <1>1, <1>2 DEF Located, HereOf
<1>4. ListShape(t)
  <2>1. CASE ok BY <1>2, <2>1 DEF ListShape, Shows, NoList
  <2>2. CASE ~ok BY <1>1, <1>2, <2>2 DEF ListShape, FileInv, Ready
  <2> QED BY <2>1, <2>2
<1>5. PathDue(t)
  BY <1>1, <1>2 DEF PathDue, FileInv, Ready
<1>6. AsksMatch(t)
  BY <1>1, <1>2, <1>3 DEF AsksMatch, FileInv
<1>7. Located(s) => <<r.m, r.p>> = HereOf(s)
  BY DEF FileInv, AsksMatch
<1>8. onPage => RowsMatch(t)
  BY <1>1, <1>2, <1>3, <1>7 DEF RowsMatch, FileInv, Shows
<1>9. ListDue(t, onPage)
  BY <1>1, <1>2, <1>3, <1>5, <1>7 DEF ListDue, PathDue, Located, Shows
<1> QED BY <1>2, <1>4, <1>5, <1>6, <1>8, <1>9 DEF FileInv, Ready, t, d

\* The path arrives, or the one that is assumed.
LEMMA PathKnown ==
    ASSUME NEW onPage, FileInv(page, onPage), NEW r \in page.requests, r.kind = "path",
           NEW p, p # None
    PROVE  LET t == [Done(page, r) EXCEPT !.pathLoading = FALSE, !.path = p]
           IN  Renders(t, onPage)
<1> DEFINE d == Done(page, r)
           t == [d EXCEPT !.pathLoading = FALSE, !.path = p]
<1>1. /\ PageShape(d) /\ d.list = page.list /\ d.loading = page.loading /\ d.error = page.error
      /\ d.machine = page.machine /\ d.selected = page.selected
      /\ d.requests = page.requests \ {r}
  BY DoneIs DEF FileInv, Ready, Fields
<1> HIDE DEF d
<1>2. /\ PageShape(t) /\ t.path = p /\ t.pathLoading = FALSE
      /\ t.list = page.list /\ t.loading = page.loading /\ t.error = page.error
      /\ t.machine = page.machine /\ t.selected = page.selected
      /\ t.requests = page.requests \ {r}
  BY <1>1 DEF PageShape, Fields
<1> HIDE DEF t
<1>3. Ready(t)
  BY <1>2 DEF Ready, ListShape, PathDue, FileInv
<1>4. ASSUME t.path = page.path, t.pathLoading = page.pathLoading
      PROVE  Quiet(page, t, onPage)
  BY <1>2, <1>3, <1>4 DEF Quiet, Ready
<1>5. <<t.machine, t.path, t.pathLoading>> = <<page.machine, page.path, page.pathLoading>>
        => FileInv(t, onPage)
  BY <1>4, QuietKeeps
<1> QED BY <1>2, <1>3, <1>5, RendersIf DEF t, d

\* A note goes to a row that is there.
LEMMA NotesQuiet ==
    ASSUME NEW onPage, NEW s, FileInv(s, onPage), NEW r, r.kind = "metadata", NEW ok \in BOOLEAN,
           ok => r.f \in Listed(s)
    PROVE  LET t == [Done(s, r) EXCEPT
                       !.list.notes = IF ok THEN {n \in @ : n[1] # r.f} \cup {<<r.f, r.m>>} ELSE @]
           IN  Quiet(s, t, onPage) /\ Same(s, t)
<1> DEFINE d == Done(s, r)
           new(notes) == IF ok THEN {n \in notes : n[1] # r.f} \cup {<<r.f, r.m>>} ELSE notes
           l == [d.list EXCEPT !.notes = new(d.list.notes)]
           t == [d EXCEPT !.list = l]
<1>1. /\ PageShape(d) /\ d.list = s.list /\ d.loading = s.loading /\ d.error = s.error
      /\ d.machine = s.machine /\ d.path = s.path /\ d.pathLoading = s.pathLoading
      /\ d.selected = s.selected /\ d.requests = s.requests \ {r}
      /\ d.wanted = s.wanted /\ d.refresh = s.refresh
  BY DoneIs DEF FileInv, Ready, Fields
<1>2. [d EXCEPT !.list.notes = IF ok THEN {n \in @ : n[1] # r.f} \cup {<<r.f, r.m>>} ELSE @] = t
  <2> HIDE DEF d
  <2> QED BY <1>1 DEF PageShape, Fields
<1> HIDE DEF d
<1>3. ListShape(s) /\ (s.list = NoList => ~ok)
  BY DEF FileInv, Ready, Listed
<1>4. l = [of |-> s.list.of, notes |-> new(s.list.notes)]
  <2> DEFINE x == new(s.list.notes)
  <2>1. l = [s.list EXCEPT !.notes = x] BY <1>1
  <2> HIDE DEF x
  <2>2. PICK o, n : s.list = [of |-> o, notes |-> n] BY <1>3 DEF ListShape
  <2>3. [s.list EXCEPT !.notes = x] = [of |-> o, notes |-> x] BY <2>2
  <2> QED BY <2>1, <2>2, <2>3 DEF x
<1>5. l.of = s.list.of /\ (l.of = NoList.of => l = NoList)
  BY <1>3, <1>4 DEF ListShape, NoList
<1>6. l = [of |-> l.of, notes |-> l.notes]
  BY <1>4
<1> HIDE DEF l
<1>7. /\ PageShape(t) /\ t.list = l /\ t.loading = d.loading /\ t.error = d.error
      /\ t.machine = d.machine /\ t.path = d.path /\ t.pathLoading = d.pathLoading
      /\ t.selected = d.selected /\ t.requests = d.requests
      /\ t.wanted = d.wanted /\ t.refresh = d.refresh
  BY <1>1 DEF PageShape, Fields
<1> HIDE DEF t
<1>8. Quiet(s, t, onPage)
  BY <1>1, <1>5, <1>6, <1>7 DEF Quiet, ListShape
<1>9. l = NoList <=> s.list = NoList BY <1>3, <1>5 DEF ListShape
<1>10. Same(s, t) BY <1>1, <1>5, <1>7, <1>9 DEF Same
<1> QED BY <1>2, <1>8, <1>10 DEF d

\* The list is fetched anew when a deployment was recorded.
LEMMA RecordedKeeps ==
    ASSUME NEW onPage, FileInv(page, onPage), NEW r, r.kind = "deploy"
    PROVE  FileInv(Recorded(r), onPage)
<1> DEFINE d == Done(page, r)
           s == [d EXCEPT !.refresh = 1 - @]
           a == Abort(s, {"programs"})
           e == [a EXCEPT !.list = NoList, !.loading = TRUE, !.error = FALSE, !.selected = None]
           g == Fetch(e, {Request("programs", r.m, r.p, None)})
           t == IF <<page.machine, page.path>> = <<r.m, r.p>> THEN g ELSE ProgramsEffect(page, s)
           v == Fetch(t, {Request("validated", r.m, None, r.f)})
<1>1. /\ PageShape(d) /\ d.list = page.list /\ d.loading = page.loading /\ d.error = page.error
      /\ d.machine = page.machine /\ d.path = page.path /\ d.pathLoading = page.pathLoading
      /\ d.selected = page.selected /\ d.requests = page.requests \ {r}
  BY DoneIs DEF FileInv, Ready, Fields
<1> HIDE DEF d
<1>2. /\ PageShape(s) /\ s.list = page.list /\ s.loading = page.loading /\ s.error = page.error
      /\ s.machine = page.machine /\ s.path = page.path /\ s.pathLoading = page.pathLoading
      /\ s.selected = page.selected /\ s.requests = page.requests \ {r}
  BY <1>1 DEF PageShape, Fields
<1> HIDE DEF s
<1>3. FileInv(s, onPage)
  <2>1. Quiet(page, s, onPage)
    BY <1>2 DEF Quiet, FileInv, Ready, ListShape
  <2> QED BY <2>1, QuietKeeps
<1>4. /\ PageShape(a)
      /\ a.machine = page.machine /\ a.path = page.path /\ a.pathLoading = page.pathLoading
      /\ a.requests = {q \in s.requests : q.kind \notin {"programs"}}
  BY <1>2, AbortIs DEF Fields
<1> HIDE DEF a
<1>5. /\ PageShape(e) /\ e.list = NoList /\ e.loading = TRUE /\ e.selected = None
      /\ e.machine = page.machine /\ e.path = page.path /\ e.pathLoading = page.pathLoading
      /\ e.requests = a.requests
  BY <1>4 DEF PageShape, Fields
<1> HIDE DEF e
<1>6. ASSUME <<page.machine, page.path>> = <<r.m, r.p>>
      PROVE  FileInv(g, onPage)
  <2> DEFINE q == Request("programs", r.m, r.p, None)
  <2>1. q.kind = "programs" /\ <<q.m, q.p>> = <<r.m, r.p>> BY RequestIs
  <2> HIDE DEF q
  <2>2. /\ PageShape(g) /\ g.list = NoList /\ g.loading = TRUE /\ g.selected = None
        /\ g.machine = page.machine /\ g.path = page.path /\ g.pathLoading = page.pathLoading
        /\ g.requests = a.requests \cup {q}
    BY <1>5, FetchIs DEF Fields, q
  <2> HIDE DEF g
  <2>3. HereOf(g) = <<q.m, q.p>> BY <1>6, <2>1, <2>2 DEF HereOf
  <2>4. ListShape(g) BY <2>2 DEF ListShape, NoList
  <2>5. PathDue(g) BY <1>2, <1>4, <2>1, <2>2 DEF PathDue, FileInv, Ready
  <2>6. AsksMatch(g) /\ RowsMatch(g) /\ ListDue(g, onPage)
    BY <1>4, <2>1, <2>2, <2>3 DEF AsksMatch, RowsMatch, ListDue
  <2> QED BY <2>2, <2>4, <2>5, <2>6 DEF FileInv, Ready
<1>7. FileInv(ProgramsEffect(page, s), onPage)
  BY <1>3, ProgramsKeep DEF FileInv
<1>8. FileInv(t, onPage) BY <1>6, <1>7
<1> HIDE DEF t
<1>9. Quiet(t, v, onPage)
  <2> DEFINE q == Request("validated", r.m, None, r.f)
  <2>1. q.kind = "validated" BY RequestIs
  <2> HIDE DEF q
  <2>2. /\ PageShape(v) /\ v.list = t.list /\ v.loading = t.loading /\ v.error = t.error
        /\ v.machine = t.machine /\ v.path = t.path /\ v.pathLoading = t.pathLoading
        /\ v.selected = t.selected /\ v.requests = t.requests \cup {q}
    BY <1>8, FetchIs DEF FileInv, Ready, Fields, q
  <2> HIDE DEF v
  <2> QED BY <1>8, <2>1, <2>2 DEF Quiet, FileInv, Ready, ListShape
<1>10. FileInv(v, onPage) BY <1>8, <1>9, QuietKeeps
<1> QED BY <1>10 DEF Recorded, v, t, g, e, a, s, d

LEMMA BesideRenders ==
    ASSUME NEW onPage, FileInv(page, onPage), NEW r, r.kind \notin {"programs", "path"},
           NEW s, Beside(Done(page, r), s), onPage => (page.error => s.error)
    PROVE  Settles(s, onPage)
<1> DEFINE d == Done(page, r)
<1>1. Quiet(page, s, onPage) BY DoneQuiet
<1>2. /\ \A k \in Fields \ {"requests"} : d[k] = page[k]
      /\ d.requests = page.requests \ {r}
  BY DoneIs DEF FileInv, Ready
<1>3. Beside(d, s) OBVIOUS
<1> HIDE DEF d
<1>4. Same(page, s) BY <1>2, <1>3 DEF Same, Beside, Fields
<1> QED BY <1>1, <1>4, SameSettles

LEMMA NothingRenders ==
    ASSUME NEW onPage, FileInv(page, onPage), NEW r, r.kind \notin {"programs", "path"}
    PROVE  Settles(Done(page, r), onPage)
<1>1. PageShape(Done(page, r)) /\ Done(page, r).error = page.error
  BY DoneIs DEF FileInv, Ready, Fields
<1>2. Beside(Done(page, r), Done(page, r)) BY <1>1 DEF Beside
<1> QED BY <1>1, <1>2, BesideRenders

LEMMA BadgesRender ==
    ASSUME NEW onPage, FileInv(page, onPage), NEW r, r.kind \notin {"programs", "path"},
           NEW x
    PROVE  Settles([Done(page, r) EXCEPT !.badges = x], onPage)
<1> DEFINE d == Done(page, r)
           s == [d EXCEPT !.badges = x]
<1>1. PageShape(d) /\ d.error = page.error BY DoneIs DEF FileInv, Ready, Fields
<1> HIDE DEF d
<1>2. PageShape(s) BY <1>1 DEF PageShape
<1>3. Beside(d, s) /\ s.error = d.error BY <1>1, <1>2 DEF Beside, PageShape, Fields
<1> HIDE DEF s
<1> QED BY <1>1, <1>3, BesideRenders DEF d, s

LEMMA PreviewRenders ==
    ASSUME NEW onPage, FileInv(page, onPage), NEW r, r.kind \notin {"programs", "path"},
           NEW x
    PROVE  Settles([Done(page, r) EXCEPT !.preview = x], onPage)
<1> DEFINE d == Done(page, r)
           s == [d EXCEPT !.preview = x]
<1>1. PageShape(d) /\ d.error = page.error BY DoneIs DEF FileInv, Ready, Fields
<1> HIDE DEF d
<1>2. PageShape(s) BY <1>1 DEF PageShape
<1>3. Beside(d, s) /\ s.error = d.error BY <1>1, <1>2 DEF Beside, PageShape, Fields
<1> HIDE DEF s
<1> QED BY <1>1, <1>3, BesideRenders DEF d, s

LEMMA DetailRenders ==
    ASSUME NEW onPage, FileInv(page, onPage), NEW r, r.kind \notin {"programs", "path"},
           NEW x
    PROVE  Settles([Done(page, r) EXCEPT !.detail = x], onPage)
<1> DEFINE d == Done(page, r)
           s == [d EXCEPT !.detail = x]
<1>1. PageShape(d) /\ d.error = page.error BY DoneIs DEF FileInv, Ready, Fields
<1> HIDE DEF d
<1>2. PageShape(s) BY <1>1 DEF PageShape
<1>3. Beside(d, s) /\ s.error = d.error BY <1>1, <1>2 DEF Beside, PageShape, Fields
<1> HIDE DEF s
<1> QED BY <1>1, <1>3, BesideRenders DEF d, s

LEMMA ViewRenders ==
    ASSUME NEW onPage, FileInv(page, onPage), NEW r, r.kind \notin {"programs", "path"},
           NEW x
    PROVE  Settles([Done(page, r) EXCEPT !.view = x], onPage)
<1> DEFINE d == Done(page, r)
           s == [d EXCEPT !.view = x]
<1>1. PageShape(d) /\ d.error = page.error BY DoneIs DEF FileInv, Ready, Fields
<1> HIDE DEF d
<1>2. PageShape(s) BY <1>1 DEF PageShape
<1>3. Beside(d, s) /\ s.error = d.error BY <1>1, <1>2 DEF Beside, PageShape, Fields
<1> HIDE DEF s
<1> QED BY <1>1, <1>3, BesideRenders DEF d, s

LEMMA ErrorRenders ==
    ASSUME NEW onPage, FileInv(page, onPage), NEW r, r.kind \notin {"programs", "path"},
           NEW x, onPage => (page.error => x)
    PROVE  Settles([Done(page, r) EXCEPT !.error = x], onPage)
<1> DEFINE d == Done(page, r)
           s == [d EXCEPT !.error = x]
<1>1. PageShape(d) /\ d.error = page.error BY DoneIs DEF FileInv, Ready, Fields
<1> HIDE DEF d
<1>2. PageShape(s) BY <1>1 DEF PageShape
<1>3. Beside(d, s) /\ s.error = x BY <1>1, <1>2 DEF Beside, PageShape, Fields
<1>4. onPage => (page.error => s.error) BY <1>3
<1> HIDE DEF s
<1>5. Settles(s, onPage) BY <1>3, <1>4, BesideRenders DEF d
<1> QED BY <1>5 DEF d, s

LEMMA CheckedRenders ==
    ASSUME NEW onPage, FileInv(page, onPage), NEW r, r.kind \notin {"programs", "path"},
           NEW x
    PROVE  Settles([Done(page, r) EXCEPT !.validating = x], onPage)
<1> DEFINE d == Done(page, r)
           s == [d EXCEPT !.validating = x]
<1>1. PageShape(d) /\ d.error = page.error BY DoneIs DEF FileInv, Ready, Fields
<1> HIDE DEF d
<1>2. PageShape(s) BY <1>1 DEF PageShape
<1>3. Beside(d, s) /\ s.error = d.error BY <1>1, <1>2 DEF Beside, PageShape, Fields
<1> HIDE DEF s
<1> QED BY <1>1, <1>3, BesideRenders DEF d, s

LEMMA NumberedRenders ==
    ASSUME NEW onPage, FileInv(page, onPage), NEW r, r.kind \notin {"programs", "path"},
           NEW x, NEW y
    PROVE  Settles([Done(page, r) EXCEPT !.seq = x, !.detail = y], onPage)
<1> DEFINE d == Done(page, r)
           s == [d EXCEPT !.seq = x, !.detail = y]
<1>1. PageShape(d) /\ d.error = page.error BY DoneIs DEF FileInv, Ready, Fields
<1> HIDE DEF d
<1>2. PageShape(s) BY <1>1 DEF PageShape
<1>3. Beside(d, s) /\ s.error = d.error BY <1>1, <1>2 DEF Beside, PageShape, Fields
<1> HIDE DEF s
<1> QED BY <1>1, <1>3, BesideRenders DEF d, s

LEMMA FoundRenders ==
    ASSUME NEW onPage, FileInv(page, onPage), NEW r, r.kind \notin {"programs", "path"},
           NEW x, NEW y, NEW z, NEW w
    PROVE  Settles([Done(page, r) EXCEPT !.seq = x, !.detail = y, !.fresh = z, !.validating = w], onPage)
<1> DEFINE d == Done(page, r)
           s == [d EXCEPT !.seq = x, !.detail = y, !.fresh = z, !.validating = w]
<1>1. PageShape(d) /\ d.error = page.error BY DoneIs DEF FileInv, Ready, Fields
<1> HIDE DEF d
<1>2. PageShape(s) BY <1>1 DEF PageShape
<1>3. Beside(d, s) /\ s.error = d.error BY <1>1, <1>2 DEF Beside, PageShape, Fields
<1> HIDE DEF s
<1> QED BY <1>1, <1>3, BesideRenders DEF d, s

LEMMA NotFoundRenders ==
    ASSUME NEW onPage, FileInv(page, onPage), NEW r, r.kind \notin {"programs", "path"},
           NEW y, NEW z, NEW w
    PROVE  Settles([Done(page, r) EXCEPT !.detail = y, !.fresh = z, !.validating = w], onPage)
<1> DEFINE d == Done(page, r)
           s == [d EXCEPT !.detail = y, !.fresh = z, !.validating = w]
<1>1. PageShape(d) /\ d.error = page.error BY DoneIs DEF FileInv, Ready, Fields
<1> HIDE DEF d
<1>2. PageShape(s) BY <1>1 DEF PageShape
<1>3. Beside(d, s) /\ s.error = d.error BY <1>1, <1>2 DEF Beside, PageShape, Fields
<1> HIDE DEF s
<1> QED BY <1>1, <1>3, BesideRenders DEF d, s

\* More is asked for about files, besides what an answer or a click changes.
LEMMA FetchRenders ==
    ASSUME NEW onPage, FileInv(page, onPage), NEW t, Quiet(page, t, onPage), NEW q,
           q.kind \in Details \cup {"deploy", "validate", "relist"}
    PROVE  Renders(Fetch(t, {q}), onPage)
<1> DEFINE u == Fetch(t, {q})
<1>1. /\ PageShape(u) /\ u.list = t.list /\ u.loading = t.loading /\ u.error = t.error
      /\ u.machine = t.machine /\ u.path = t.path /\ u.pathLoading = t.pathLoading
      /\ u.selected = t.selected /\ u.requests = t.requests \cup {q}
  BY FetchIs DEF Quiet, Fields
<1> HIDE DEF u
<1>2. q.kind \notin {"programs", "path"} BY DEF Details, Looks
<1>3. Quiet(page, u, onPage)
  BY <1>1, <1>2 DEF Quiet, ListShape
<1> QED BY <1>3, QuietRenders DEF u

LEMMA AnswersAre ==
    ASSUME NEW kind, NEW r \in Answer(kind)
    PROVE  r \in page.requests /\ r.kind = kind
  BY DEF Answer

LEMMA DeployAsked ==
    ASSUME NEW onPage, FileInv(page, onPage), NEW r, r.kind \notin {"programs", "path"}, NEW x
    PROVE  Renders(Fetch([Done(page, r) EXCEPT !.fresh = x], {Request("deploy", r.m, r.p, r.f)}),
                   onPage)
<1> DEFINE d == Done(page, r)
           s == [d EXCEPT !.fresh = x]
           q == Request("deploy", r.m, r.p, r.f)
<1>1. PageShape(d) /\ d.error = page.error BY DoneIs DEF FileInv, Ready, Fields
<1> HIDE DEF d
<1>2. PageShape(s) BY <1>1 DEF PageShape
<1>3. Beside(d, s) /\ s.error = d.error BY <1>1, <1>2 DEF Beside, PageShape, Fields
<1> HIDE DEF s
<1>4. Quiet(page, s, onPage) BY <1>1, <1>3, DoneQuiet DEF d
<1>5. q.kind = "deploy" BY RequestIs
<1> HIDE DEF q
<1> QED BY <1>4, <1>5, FetchRenders DEF d, s, q

LinkType ==
    /\ link.m \in Machines \cup {None}
    /\ link.p \in Paths \cup {None}
    /\ link.f # None => link.m # None

\* Nothing that the user started is under way while the file is looked for.
LEMMA NothingStarted ==
    ASSUME NEW f, NEW onPage, LinkInv(page, f, onPage), NEW r \in page.requests
    PROVE  r.kind \notin {"view", "download", "validate", "validated", "deploy", "upload", "relist"}
  BY DEF LinkInv, Calm, Early, Looks

\* The path arrives, and with it the list or what it waits for.
LEMMA PathLinked ==
    ASSUME NEW onPage, LinkInv(page, link.f, onPage), NEW r \in page.requests, r.kind = "path",
           NEW p \in Paths, NEW t,
           /\ PageShape(t) /\ t.path = p /\ t.pathLoading = FALSE
           /\ \A k \in Fields \ {"requests", "path", "pathLoading"} : t[k] = page[k]
           /\ t.requests = page.requests \ {r}
    PROVE  /\ Calm(ProgramsEffect(page, t), link.f, onPage)
           /\ Listed(page) = {}
<1> DEFINE x == Abort(t, {"programs"})
           y == ShowPrograms(x)
           q == Request("programs", x.machine, x.path, None)
<1>0. Calm(page, link.f, onPage) BY DEF LinkInv
<1>1. /\ page.machine # None /\ page.path = None /\ ~page.loading
      /\ page.list = NoList /\ page.selected = None
      /\ r = Request("path", page.machine, None, None)
      /\ \A o \in page.requests : o.kind = "path" => o = r
      /\ \A o \in page.requests : o.kind # "machines" /\ o.kind # "programs"
  BY <1>0 DEF Calm
<1>4. /\ PageShape(x) /\ \A k \in Fields \ {"requests"} : x[k] = t[k]
      /\ x.requests = {o \in t.requests : o.kind \notin {"programs"}}
  BY AbortIs
<1>5. p # None BY PathsAssumption
<1>6. ProgramsEffect(page, t) = y
  BY <1>1, <1>5 DEF ProgramsEffect
<1> HIDE DEF x
<1>7. /\ x.machine = page.machine /\ x.path = p /\ x.pathLoading = FALSE
      /\ x.wanted = page.wanted
      /\ \A o \in x.requests : o \in page.requests /\ o.kind # "path"
  BY <1>1, <1>4 DEF Fields
<1>8. Located(x) BY <1>5, <1>7 DEF Located
<1>9. q.kind = "programs" BY RequestIs
<1>10. /\ PageShape(y) /\ y.machine = page.machine /\ y.path = p /\ y.pathLoading = FALSE
       /\ y.wanted = page.wanted /\ y.selected = None
       /\ \/ y.list = Shows(HereOf(x)) /\ y.loading = FALSE /\ y.requests = x.requests
          \/ y.list = NoList /\ y.loading = TRUE /\ y.requests = x.requests \cup {q}
  <2>1. /\ PageShape(y)
        /\ \A k \in Fields \ {"list", "loading", "error", "selected", "requests"} : y[k] = x[k]
        /\ y.selected = None
        /\ \/ y.list = Shows(HereOf(x)) /\ y.loading = FALSE /\ y.requests = x.requests
           \/ y.list = NoList /\ y.loading = TRUE /\ y.requests = x.requests \cup {q}
    BY <1>4, <1>8, ShowProgramsIs
  <2> HIDE DEF y
  <2> QED BY <1>7, <2>1 DEF Fields
<1> HIDE DEF y
<1>11. HereOf(x) = HereOf(y) /\ Shows(HereOf(x)).of = HereOf(x)
  BY <1>7, <1>10 DEF HereOf, Shows
<1>12. q = Request("programs", y.machine, y.path, None) BY <1>7, <1>10
<1> HIDE DEF q
<1>13. Calm(y, link.f, onPage)
  <2>1. \A o \in y.requests : o = q \/ (o \in page.requests /\ o.kind # "path")
    BY <1>7, <1>10
  <2>2. \A o \in y.requests : o.kind \in Early \cup Looks
    BY <1>0, <1>9, <2>1 DEF Calm, Early
  <2>3. \A o \in y.requests : o.kind # "machines" /\ o.kind # "path"
    BY <1>1, <1>9, <2>1
  <2>4. \A o \in y.requests : o.kind = "programs" => o = q /\ y.loading
    BY <1>1, <1>7, <1>10
  <2> QED BY <1>0, <1>1, <1>5, <1>10, <1>11, <1>12, <2>2, <2>3, <2>4 DEF Calm
<1> QED BY <1>1, <1>6, <1>13 DEF Listed

LEMMA PathKeepsLink ==
    ASSUME NEW onPage, FileInv(page, onPage), NEW r \in page.requests, r.kind = "path", NEW p \in Paths
    PROVE  LinkKept([Done(page, r) EXCEPT !.pathLoading = FALSE, !.path = p])
<1> DEFINE d == Done(page, r)
           t == [d EXCEPT !.pathLoading = FALSE, !.path = p]
           a == ProgramsEffect(page, t)
<1>a. /\ PageShape(d) /\ \A k \in Fields \ {"requests"} : d[k] = page[k]
      /\ d.requests = page.requests \ {r}
  BY DoneIs DEF FileInv, Ready
<1> HIDE DEF d
<1>b. /\ PageShape(t) /\ t.path = p /\ t.pathLoading = FALSE
      /\ \A k \in Fields \ {"path", "pathLoading"} : t[k] = d[k]
  BY <1>a DEF PageShape, Fields
<1> HIDE DEF t
<1>0. /\ PageShape(t) /\ t.path = p /\ t.pathLoading = FALSE
      /\ \A k \in Fields \ {"requests", "path", "pathLoading"} : t[k] = page[k]
      /\ t.requests = page.requests \ {r}
  BY <1>a, <1>b DEF Fields
<1>1. ASSUME NEW here, LinkInv(page, link.f, here)
      PROVE  Calm(a, link.f, here) /\ Listed(page) = {}
  BY <1>0, <1>1, PathLinked
<1>2. /\ Render(page, t) = HistoryEffect(page, SelectionEffect(page, PendingEffect(page, a)))
      /\ PaneRender(page, t) = PaneHistoryEffect(page, PaneSelectionEffect(page, LinkEffect(page, a)))
  BY DEF Render, PaneRender, PaneProgramsEffect
<1> HIDE DEF a
<1>3. LinkInv(page, link.f, TRUE) => LinkInv(Render(page, t), link.f, TRUE)
  BY <1>1, <1>2, EffectsFind
<1>4. LinkInv(page, link.f, FALSE) => LinkInv(PaneRender(page, t), link.f, FALSE)
  BY <1>1, <1>2, PaneEffectsFind
<1> QED BY <1>3, <1>4 DEF LinkKept, t, d

\* The list arrives, and is looked through.
LEMMA ListLinked ==
    ASSUME NEW onPage, LinkInv(page, link.f, onPage), NEW r \in page.requests,
           r.kind = "programs", NEW l, l = NoList \/ l = Shows(<<r.m, r.p>>), NEW e,
           NEW t, t = [Done(page, r) EXCEPT !.loading = FALSE, !.list = l, !.error = e]
    PROVE  /\ ProgramsEffect(page, t) = t /\ Calm(t, link.f, onPage)
           /\ page.loading /\ ~t.loading
<1> DEFINE d == Done(page, r)
<1>0. Calm(page, link.f, onPage) BY DEF LinkInv
<1>1. /\ page.path # None /\ page.loading /\ page.list = NoList /\ page.selected = None
      /\ r = Request("programs", page.machine, page.path, None)
      /\ \A o \in page.requests : o.kind = "programs" => o = r
  BY <1>0 DEF Calm
<1>2. /\ PageShape(d) /\ \A k \in Fields \ {"requests"} : d[k] = page[k]
      /\ d.requests = page.requests \ {r}
  BY <1>0, DoneIs DEF Calm
<1>a. t = [d EXCEPT !.loading = FALSE, !.list = l, !.error = e] OBVIOUS
<1> HIDE DEF d
<1>b. /\ PageShape(t) /\ t.loading = FALSE /\ t.list = l
      /\ \A k \in Fields \ {"loading", "list", "error"} : t[k] = d[k]
  BY <1>2, <1>a DEF PageShape, Fields
<1>3. /\ PageShape(t) /\ t.loading = FALSE /\ t.list = l
      /\ \A k \in Fields \ {"requests", "loading", "list", "error"} : t[k] = page[k]
      /\ t.requests = page.requests \ {r}
  BY <1>2, <1>b DEF Fields
<1>4. /\ t.machine = page.machine /\ t.path = page.path /\ t.pathLoading = page.pathLoading
      /\ t.refresh = page.refresh /\ t.wanted = page.wanted /\ t.selected = None
  BY <1>1, <1>3 DEF Fields
<1>5. ProgramsEffect(page, t) = t BY <1>4 DEF ProgramsEffect
<1>6. <<r.m, r.p>> = HereOf(t) BY <1>1, <1>4, RequestIs DEF HereOf
<1>7. l = NoList \/ l.of = HereOf(t) BY <1>6 DEF Shows
<1>8. \A o \in t.requests : o \in page.requests /\ o.kind # "programs" BY <1>1, <1>3
<1>9. Calm(t, link.f, onPage)
  BY <1>0, <1>1, <1>3, <1>4, <1>7, <1>8 DEF Calm
<1> QED BY <1>1, <1>3, <1>5, <1>9

LEMMA ListKeepsLink ==
    ASSUME NEW onPage, FileInv(page, onPage), NEW r \in page.requests, r.kind = "programs", NEW ok \in BOOLEAN
    PROVE  LinkKept([Done(page, r) EXCEPT !.loading = FALSE,
                      !.list = IF ok THEN [of |-> <<r.m, r.p>>, notes |-> {}] ELSE @,
                      !.error = IF ok THEN @ ELSE TRUE])
<1> DEFINE d == Done(page, r)
           l == IF ok THEN Shows(<<r.m, r.p>>) ELSE d.list
           e == IF ok THEN d.error ELSE TRUE
           t == [d EXCEPT !.loading = FALSE, !.list = l, !.error = e]
<1>1. PageShape(d) /\ d.list = page.list BY DoneIs DEF FileInv, Ready, Fields
<1>2. [d EXCEPT !.loading = FALSE, !.list = IF ok THEN [of |-> <<r.m, r.p>>, notes |-> {}] ELSE @,
                !.error = IF ok THEN @ ELSE TRUE] = t
  BY <1>1 DEF PageShape, Fields, Shows
<1>a. t = [Done(page, r) EXCEPT !.loading = FALSE, !.list = l, !.error = e] OBVIOUS
<1> HIDE DEF t
<1>3. ASSUME NEW here, LinkInv(page, link.f, here)
      PROVE  /\ ProgramsEffect(page, t) = t /\ Calm(t, link.f, here)
             /\ page.loading /\ ~t.loading
  <2>1. page.list = NoList BY <1>3 DEF LinkInv, Calm
  <2>2. l = NoList \/ l = Shows(<<r.m, r.p>>) BY <1>1, <2>1
  <2> HIDE DEF l, e
  <2> QED BY <1>3, <1>a, <2>2, ListLinked, Zenon
<1>4. /\ Render(page, t)
           = HistoryEffect(page, SelectionEffect(page, PendingEffect(page, ProgramsEffect(page, t))))
      /\ PaneRender(page, t)
           = PaneHistoryEffect(page, PaneSelectionEffect(page,
                                       LinkEffect(page, ProgramsEffect(page, t))))
  BY DEF Render, PaneRender, PaneProgramsEffect
<1>5. LinkInv(page, link.f, TRUE) => LinkInv(Render(page, t), link.f, TRUE)
  BY <1>3, <1>4, EffectsFind
<1>6. LinkInv(page, link.f, FALSE) => LinkInv(PaneRender(page, t), link.f, FALSE)
  BY <1>3, <1>4, PaneEffectsFind
<1> QED BY <1>2, <1>5, <1>6 DEF LinkKept, t

\* The machines arrive: that of the address is chosen, and its file wanted.
LEMMA MachineLinked ==
    ASSUME LinkType, LinkInv(page, link.f, TRUE), NEW r \in page.requests, r.kind = "machines",
           NEW m \in Machines
    PROVE  LinkInv(Render(page, MachineEffects(Done(page, r), m)), link.f, TRUE)
<1> DEFINE to == DeepLink(m)
           d == Done(page, r)
           a == Abort(d, {"programs"})
           b == [a EXCEPT !.machine = m]
           t == Abort(b, {"path", "programs", "badges"})
           u == [t EXCEPT !.machine = to, !.path = None, !.pathLoading = TRUE, !.wanted = link.f]
           pq == Request("path", to, None, None)
           bq == Request("badges", to, None, None)
           v == Fetch(u, {pq, bq})
<1>0. Calm(page, link.f, TRUE) BY DEF LinkInv
<1>1. /\ page.machine = None /\ page.path = None /\ ~page.loading
      /\ page.list = NoList /\ page.selected = None
      /\ \A o \in page.requests : o.kind = "machines" => o = r
  BY <1>0 DEF Calm
<1>2. link.f # None /\ link.m # None BY <1>0 DEF Calm, LinkType
<1>3. /\ PageShape(d) /\ \A k \in Fields \ {"requests"} : d[k] = page[k]
      /\ d.requests = page.requests \ {r}
  BY <1>0, DoneIs DEF Calm
<1> HIDE DEF d
<1>4. /\ PageShape(a) /\ \A k \in Fields \ {"requests"} : a[k] = page[k]
      /\ a.requests \subseteq d.requests
  BY <1>3, AbortIs DEF Fields
<1> HIDE DEF a
<1>5. /\ PageShape(b) /\ \A k \in Fields \ {"machine"} : b[k] = a[k]
  BY <1>4 DEF PageShape, Fields
<1> HIDE DEF b
<1>6. /\ b.path = None /\ b.requests = a.requests /\ b.loading = page.loading
      /\ b.list = page.list /\ b.selected = page.selected
  BY <1>1, <1>4, <1>5 DEF Fields
<1>7. ShowPrograms(b) = b BY <1>6 DEF ShowPrograms
<1>8. /\ PageShape(t) /\ \A k \in Fields \ {"requests"} : t[k] = b[k]
      /\ \A o \in t.requests : o \in b.requests /\ o.kind # "path" /\ o.kind # "programs"
  BY <1>5, AbortIs
<1> HIDE DEF t
<1>9. t.list = NoList /\ ~t.loading /\ t.selected = None /\ t.requests \subseteq page.requests \ {r}
  BY <1>1, <1>3, <1>4, <1>6, <1>8 DEF Fields
<1>10. /\ PageShape(u) /\ u.machine = to /\ u.path = None /\ u.pathLoading = TRUE
       /\ u.wanted = link.f /\ u.list = NoList /\ ~u.loading /\ u.selected = None
       /\ u.requests = t.requests
  BY <1>8, <1>9 DEF PageShape, Fields
<1> HIDE DEF u
<1>11. /\ PageShape(v) /\ \A k \in Fields \ {"requests"} : v[k] = u[k]
       /\ v.requests = u.requests \cup {pq, bq}
  BY <1>10, FetchIs
<1>12. MachineEffects(Done(page, r), m) = v
  BY <1>2, <1>7 DEF MachineEffects, v, u, t, b, a, d
<1> HIDE DEF v
<1>13. /\ v.machine = to /\ v.path = None /\ v.pathLoading = TRUE /\ v.wanted = link.f
       /\ v.list = NoList /\ ~v.loading /\ v.selected = None
  BY <1>10, <1>11 DEF Fields
<1>14. to \in Machines /\ to # None
  BY <1>2, PathsAssumption DEF DeepLink, LinkType
<1>15. pq.kind = "path" /\ bq.kind = "badges" /\ pq = Request("path", v.machine, None, None)
  BY <1>13, RequestIs
<1> HIDE DEF to, pq, bq
<1>16. \A o \in v.requests : \/ o = pq \/ o = bq
                             \/ /\ o \in page.requests /\ o.kind # "path" /\ o.kind # "programs"
                                /\ o.kind # "machines"
  BY <1>1, <1>8, <1>9, <1>10, <1>11
<1>17. Calm(v, link.f, TRUE)
  <2>1. \A o \in v.requests : o.kind \in Early \cup Looks
    BY <1>0, <1>15, <1>16 DEF Calm, Early
  <2>2. \A o \in v.requests : o.kind # "machines" /\ o.kind # "programs" /\ (o.kind = "path" => o = pq)
    BY <1>15, <1>16
  <2> QED BY <1>0, <1>11, <1>13, <1>14, <1>15, <2>1, <2>2 DEF Calm
<1>18. LinkInv(v, link.f, TRUE) BY <1>13, <1>17 DEF LinkInv, Listed
<1> DEFINE x == Abort(v, {"programs"})
           w == ProgramsEffect(page, v)
<1>19. /\ PageShape(x) /\ \A k \in Fields \ {"requests"} : x[k] = v[k]
       /\ x.requests = {o \in v.requests : o.kind \notin {"programs"}}
  BY <1>11, AbortIs
<1>20. w = v \/ w = ShowPrograms(x) BY DEF ProgramsEffect
<1> HIDE DEF x
<1>21. Same(v, x) BY <1>19 DEF Same, Fields
<1>22. ShowPrograms(x) = x BY <1>13, <1>19 DEF ShowPrograms, Fields
<1>23. LinkInv(w, link.f, TRUE) BY <1>18, <1>20, <1>21, <1>22, SameCalm
<1>24. Render(page, v) = HistoryEffect(page, SelectionEffect(page, PendingEffect(page, w)))
  BY DEF Render
<1> HIDE DEF w
<1>25. Calm(w, link.f, TRUE) BY <1>23 DEF LinkInv
<1> QED BY <1>12, <1>23, <1>24, <1>25, EffectsFind

\* What a step of the page keeps.
PageLinked == LinkInv(page, link.f, TRUE) => LinkInv(page', link.f, TRUE)
PageKept == FileInv(page', TRUE) /\ PageLinked
PaneLinked == LinkInv(page, link.f, FALSE) => LinkInv(page', link.f, FALSE)

\* Every answer to the page.
LEMMA PageAnswers ==
    ASSUME FileInv(page, TRUE), LinkType, Answers \/ \E f \in Files : DeploymentArrives(f)
    PROVE  PageKept
<1>1. ASSUME MachinesArrive PROVE PageKept
  <2> PICK r \in Answer("machines") :
        \/ \E m \in Machines : page' = Render(page, MachineEffects(Done(page, r), m))
        \/ page' = Render(page, Done(page, r))
    BY <1>1 DEF MachinesArrive, Becomes
  <2>0. r.kind \notin {"programs", "path"} BY AnswersAre
  <2>1. PageShape(Done(page, r)) /\ Done(page, r).error = page.error
    BY DoneIs DEF FileInv, Ready, Fields
  <2>2. Ready(Done(page, r))
    <3>1. Beside(Done(page, r), Done(page, r)) BY <2>1 DEF Beside
    <3>2. Quiet(page, Done(page, r), TRUE) BY <2>0, <2>1, <3>1, DoneQuiet
    <3> QED BY <3>2, QuietKeeps DEF FileInv
  <2>3. ASSUME NEW m \in Machines, page' = Render(page, MachineEffects(Done(page, r), m))
        PROVE  PageKept
    <3>1. FileInv(MachineEffects(Done(page, r), m), TRUE)
      BY <2>2, MachineReady DEF LinkType
    <3>2. FileInv(page', TRUE) BY <2>3, <3>1, RenderKeeps DEF FileInv
    <3>3. PageLinked BY <2>3, AnswersAre, MachineLinked DEF PageLinked
    <3> QED BY <3>2, <3>3 DEF PageKept
  <2>4. Settles(Done(page, r), TRUE) BY <2>0, NothingRenders
  <2> QED BY <2>3, <2>4 DEF Settles, Renders, LinkKept, PageKept, PageLinked
<1>2. ASSUME PathArrives PROVE PageKept
  <2> PICK r \in Answer("path"), ok \in BOOLEAN :
        page' = Render(page, [Done(page, r) EXCEPT !.pathLoading = FALSE,
                    !.path = IF ~ok THEN Root
                             ELSE IF link.m = r.m /\ link.p # None THEN link.p ELSE Default[r.m]])
    BY <1>2 DEF PathArrives, Becomes
  <2> DEFINE p == IF ~ok THEN Root
                  ELSE IF link.m = r.m /\ link.p # None THEN link.p ELSE Default[r.m]
             t == [Done(page, r) EXCEPT !.pathLoading = FALSE, !.path = p]
  <2>1. r \in page.requests /\ r.kind = "path" BY AnswersAre
  <2>2. r.m \in Machines BY <2>1 DEF FileInv, Ready, PathDue
  <2>3. p \in Paths BY <2>2, PathsAssumption DEF Paths, LinkType
  <2>4. p # None BY <2>3, PathsAssumption
  <2> HIDE DEF p
  <2>5. Renders(t, TRUE) BY <2>1, <2>4, PathKnown
  <2>6. LinkKept(t) BY <2>1, <2>3, PathKeepsLink
  <2>7. page' = Render(page, t) BY DEF p
  <2> HIDE DEF t
  <2> QED BY <2>5, <2>6, <2>7 DEF Renders, LinkKept, PageKept, PageLinked
<1>3. ASSUME ProgramsArrive PROVE PageKept
  <2> PICK r \in Answer("programs"), ok \in BOOLEAN :
        page' = Render(page, [Done(page, r) EXCEPT !.loading = FALSE,
                    !.list = IF ok THEN [of |-> <<r.m, r.p>>, notes |-> {}] ELSE @,
                    !.error = IF ok THEN @ ELSE TRUE])
    BY <1>3 DEF ProgramsArrive, Becomes
  <2> DEFINE t == [Done(page, r) EXCEPT !.loading = FALSE,
                    !.list = IF ok THEN [of |-> <<r.m, r.p>>, notes |-> {}] ELSE @,
                    !.error = IF ok THEN @ ELSE TRUE]
  <2>1. FileInv(t, TRUE) BY AnswersAre, ListArrives
  <2>2. LinkKept(t) BY AnswersAre, ListKeepsLink
  <2> HIDE DEF t
  <2>3. FileInv(Render(page, t), TRUE) BY <2>1, RenderKeeps DEF FileInv
  <2> QED BY <2>2, <2>3 DEF LinkKept, PageKept, PageLinked, t
<1>4. ASSUME BadgesArrive PROVE PageKept
  <2> PICK r, x :
        /\ r \in Answer("badges")
        /\ page' = Render(page, [Done(page, r) EXCEPT !.badges = x])
    BY <1>4 DEF BadgesArrive, Becomes
  <2>1. r.kind \notin {"programs", "path"} BY AnswersAre
  <2>2. Settles([Done(page, r) EXCEPT !.badges = x], TRUE) BY <2>1, BadgesRender
  <2> QED BY <2>2 DEF Settles, Renders, LinkKept, PageKept, PageLinked
<1>5. ASSUME PreviewArrives PROVE PageKept
  <2> PICK r, x :
        /\ r \in Answer("preview")
        /\ page' = Render(page, [Done(page, r) EXCEPT !.preview = x])
    BY <1>5 DEF PreviewArrives, Becomes
  <2>1. r.kind \notin {"programs", "path"} BY AnswersAre
  <2>2. Settles([Done(page, r) EXCEPT !.preview = x], TRUE) BY <2>1, PreviewRenders
  <2> QED BY <2>2 DEF Settles, Renders, LinkKept, PageKept, PageLinked
<1>6. ASSUME MetadataArrives PROVE PageKept
  <2> PICK r \in Answer("metadata"), ok \in BOOLEAN :
        page' = Render(page, [Done(page, r) EXCEPT
                    !.list.notes = IF ok /\ r.p = page.list.of[2] /\ r.f \in Listed(page)
                                   THEN {n \in @ : n[1] # r.f} \cup {<<r.f, r.m>>} ELSE @])
    BY <1>6 DEF MetadataArrives, Becomes
  <2> DEFINE yes == ok /\ r.p = page.list.of[2] /\ r.f \in Listed(page)
  <2>1. yes \in BOOLEAN /\ (yes => r.f \in Listed(page)) OBVIOUS
  <2>2. page' = Render(page, [Done(page, r) EXCEPT
                    !.list.notes = IF yes THEN {n \in @ : n[1] # r.f} \cup {<<r.f, r.m>>} ELSE @])
    OBVIOUS
  <2> HIDE DEF yes
  <2> DEFINE t == [Done(page, r) EXCEPT
                    !.list.notes = IF yes THEN {n \in @ : n[1] # r.f} \cup {<<r.f, r.m>>} ELSE @]
  <2>3. Quiet(page, t, TRUE) /\ Same(page, t) BY <2>1, AnswersAre, NotesQuiet
  <2>4. page' = Render(page, t) BY <2>2
  <2> HIDE DEF t
  <2>5. Settles(t, TRUE) BY <2>3, SameSettles
  <2> QED BY <2>4, <2>5 DEF Settles, Renders, LinkKept, PageKept, PageLinked
<1>7. ASSUME DetailArrives PROVE PageKept
  <2> PICK r, d, fr, va, sq :
        /\ r \in Answer("detail") \cup Answer("validated")
        /\ \/ page' = Render(page, [Done(page, r) EXCEPT !.seq = sq, !.detail = d,
                                   !.fresh = fr, !.validating = va])
           \/ page' = Render(page, [Done(page, r) EXCEPT !.detail = d,
                                   !.fresh = fr, !.validating = va])
    BY <1>7 DEF DetailArrives, Becomes
  <2>1. r.kind \notin {"programs", "path"} BY DEF Answer
  <2>2. Settles([Done(page, r) EXCEPT !.seq = sq, !.detail = d,
                   !.fresh = fr, !.validating = va], TRUE)
    BY <2>1, FoundRenders
  <2>3. Settles([Done(page, r) EXCEPT !.detail = d, !.fresh = fr, !.validating = va], TRUE)
    BY <2>1, NotFoundRenders
  <2> QED BY <2>2, <2>3 DEF Settles, Renders, LinkKept, PageKept, PageLinked
<1>8. ASSUME ViewArrives PROVE PageKept
  <2> PICK r \in Answer("view") :
        \/ \E x : page' = Render(page, [Done(page, r) EXCEPT !.view = x])
        \/ page' = Render(page, [Done(page, r) EXCEPT !.error = TRUE])
    BY <1>8 DEF ViewArrives, Becomes
  <2>1. r.kind \notin {"programs", "path"} BY AnswersAre
  <2>2. \A x : Settles([Done(page, r) EXCEPT !.view = x], TRUE) BY <2>1, ViewRenders
  <2>3. Settles([Done(page, r) EXCEPT !.error = TRUE], TRUE) BY <2>1, ErrorRenders
  <2> QED BY <2>2, <2>3 DEF Settles, Renders, LinkKept, PageKept, PageLinked
<1>9. ASSUME DownloadArrives PROVE PageKept
  <2> PICK r \in Answer("download"), ok \in BOOLEAN :
        page' = Render(page, [Done(page, r) EXCEPT !.error = IF ok THEN @ ELSE TRUE])
    BY <1>9 DEF DownloadArrives, Becomes
  <2> DEFINE x == IF ok THEN Done(page, r).error ELSE TRUE
  <2>1. page.error => x BY DoneIs DEF FileInv, Ready, Fields
  <2>2. page' = Render(page, [Done(page, r) EXCEPT !.error = x]) OBVIOUS
  <2> HIDE DEF x
  <2>3. r.kind \notin {"programs", "path"} BY AnswersAre
  <2>4. Settles([Done(page, r) EXCEPT !.error = x], TRUE) BY <2>1, <2>3, ErrorRenders
  <2> QED BY <2>2, <2>4 DEF Settles, Renders, LinkKept, PageKept, PageLinked
<1>10. ASSUME ValidateArrives PROVE PageKept
  <2> PICK r \in Answer("validate") :
      \/ page' = Render(page, Fetch([Done(page, r) EXCEPT !.fresh = <<r.m, r.p, r.f>>],
                          {Request("deploy", r.m, r.p, r.f)}))
      \/ page' = Render(page, [Done(page, r) EXCEPT !.validating = FALSE])
    BY <1>10 DEF ValidateArrives, Becomes
  <2>1. r.kind \notin {"programs", "path"} BY AnswersAre
  <2>2. PageLinked BY AnswersAre, NothingStarted DEF PageLinked
  <2> QED BY <2>1, <2>2, CheckedRenders, DeployAsked DEF Settles, Renders, PageKept
<1>11. ASSUME DeployArrives PROVE PageKept
  <2> PICK r \in Answer("deploy") :
        \/ page' = HistoryEffect(page, SelectionEffect(page, PendingEffect(page, Recorded(r))))
        \/ page' = Render(page, [Done(page, r) EXCEPT !.validating = FALSE])
    BY <1>11 DEF DeployArrives, Becomes
  <2>1. r.kind = "deploy" BY AnswersAre
  <2>2. FileInv(HistoryEffect(page, SelectionEffect(page, PendingEffect(page, Recorded(r)))), TRUE)
    BY <2>1, RecordedKeeps, EffectsKeep
  <2>3. PageLinked BY AnswersAre, NothingStarted DEF PageLinked
  <2> QED BY <2>1, <2>2, <2>3, CheckedRenders DEF Settles, Renders, PageKept
<1>12. ASSUME NEW f \in Files, DeploymentArrives(f) PROVE PageKept
  <2> PICK r \in Answer("deployment") :
        \/ \E x : page' = Render(page, [Done(page, r) EXCEPT !.detail = x])
        \/ page' = Render(page, Done(page, r))
    BY <1>12 DEF DeploymentArrives, Becomes
  <2>1. r.kind \notin {"programs", "path"} BY AnswersAre
  <2>2. \A x : Settles([Done(page, r) EXCEPT !.detail = x], TRUE) BY <2>1, DetailRenders
  <2>3. Settles(Done(page, r), TRUE) BY <2>1, NothingRenders
  <2> QED BY <2>2, <2>3 DEF Settles, Renders, LinkKept, PageKept, PageLinked
<1> QED BY <1>1, <1>2, <1>3, <1>4, <1>5, <1>6, <1>7, <1>8, <1>9, <1>10, <1>11, <1>12 DEF Answers

-----------------------------------------------------------------------------
(* The user *)

LEMMA BesideQuiet ==
    ASSUME NEW onPage, NEW s, FileInv(s, onPage), NEW t, Beside(s, t), onPage => (s.error => t.error)
    PROVE  Quiet(s, t, onPage)
  BY DEF Quiet, Beside, FileInv, Ready, ListShape

LEMMA ClickRenders ==
    ASSUME NEW onPage, FileInv(page, onPage), NEW x
    PROVE  /\ Renders([page EXCEPT !.view = x], onPage)
           /\ Renders([page EXCEPT !.picked = x], onPage)
<1>0. PageShape(page) BY DEF FileInv, Ready
<1>1. Renders([page EXCEPT !.view = x], onPage)
  <2> DEFINE t == [page EXCEPT !.view = x]
  <2>1. PageShape(t) BY <1>0 DEF PageShape
  <2>2. Beside(page, t) /\ t.error = page.error BY <1>0, <2>1 DEF Beside, PageShape, Fields
  <2> HIDE DEF t
  <2> QED BY <2>2, BesideQuiet, QuietRenders DEF t
<1>2. Renders([page EXCEPT !.picked = x], onPage)
  <2> DEFINE t == [page EXCEPT !.picked = x]
  <2>1. PageShape(t) BY <1>0 DEF PageShape
  <2>2. Beside(page, t) /\ t.error = page.error BY <1>0, <2>1 DEF Beside, PageShape, Fields
  <2> HIDE DEF t
  <2> QED BY <2>2, BesideQuiet, QuietRenders DEF t
<1> QED BY <1>1, <1>2

LEMMA AskRenders ==
    ASSUME NEW onPage, FileInv(page, onPage), NEW q, q.kind \in Details
    PROVE  Renders(Fetch(page, {q}), onPage)
<1>1. Quiet(page, page, onPage)
  BY DEF Quiet, FileInv, Ready
<1> QED BY <1>1, FetchRenders

LEMMA ValidateRenders ==
    ASSUME NEW onPage, FileInv(page, onPage), NEW q, q.kind = "validate"
    PROVE  Renders(Fetch([page EXCEPT !.validating = TRUE, !.fresh = None], {q}), onPage)
<1> DEFINE t == [page EXCEPT !.validating = TRUE, !.fresh = None]
<1>0. PageShape(page) BY DEF FileInv, Ready
<1>1. PageShape(t) BY <1>0 DEF PageShape
<1>2. Beside(page, t) /\ t.error = page.error BY <1>0, <1>1 DEF Beside, PageShape, Fields
<1> HIDE DEF t
<1>3. Quiet(page, t, onPage) BY <1>2, BesideQuiet
<1> QED BY <1>3, FetchRenders DEF t

LEMMA SelectRenders ==
    ASSUME NEW onPage, FileInv(page, onPage), NEW f \in Rows
    PROVE  Renders([page EXCEPT !.selected = [f |-> f, of |-> page.list.of]], onPage)
<1> DEFINE t == [page EXCEPT !.selected = [f |-> f, of |-> page.list.of]]
<1>0. PageShape(page) BY DEF FileInv, Ready
<1>1. PageShape(t) BY <1>0 DEF PageShape
<1>2. \A k \in Fields \ {"selected", "wanted"} : t[k] = page[k]
  BY <1>0 DEF PageShape, Fields
<1>3. t.selected = [f |-> f, of |-> page.list.of]
  BY <1>0 DEF PageShape, Fields
<1> HIDE DEF t
<1>4. ~page.loading /\ f \in Listed(page) BY DEF Rows
<1>5. Picks(page, t, f) BY <1>1, <1>2, <1>3, <1>4 DEF Picks
<1>6. FileInv(t, onPage) BY <1>5, PicksKeeps
<1>7. /\ t.machine = page.machine /\ t.list.of = page.list.of
      /\ t.pathLoading = page.pathLoading
  BY <1>2 DEF Fields
<1> QED BY <1>6, <1>7, RendersIf DEF FileInv, t

LEMMA PathRenders ==
    ASSUME NEW onPage, FileInv(page, onPage), NEW p, p # None
    PROVE  Renders([page EXCEPT !.path = p], onPage)
<1> DEFINE t == [page EXCEPT !.path = p]
<1>0. PageShape(page) BY DEF FileInv, Ready
<1>1. PageShape(t) BY <1>0 DEF PageShape
<1>2. /\ t.path = p /\ t.machine = page.machine /\ t.pathLoading = page.pathLoading
      /\ t.list = page.list /\ t.loading = page.loading /\ t.error = page.error
      /\ t.selected = page.selected /\ t.requests = page.requests
  BY <1>0 DEF PageShape, Fields
<1> HIDE DEF t
<1>3. Ready(t) BY <1>1, <1>2 DEF FileInv, Ready, ListShape, PathDue
<1>4. ASSUME t.path = page.path PROVE Quiet(page, t, onPage)
  BY <1>2, <1>3, <1>4 DEF Quiet, Ready
<1> QED BY <1>2, <1>3, <1>4, QuietKeeps, RendersIf DEF t

LEMMA PathsKnown == Dir # None /\ Root # None
  BY PathsAssumption DEF Paths

LEMMA RequestKinds ==
    ASSUME NEW m, NEW p, NEW f
    PROVE  /\ Request("download", m, p, f).kind \in Details
           /\ Request("view", m, p, f).kind \in Details
           /\ Request("upload", m, p, f).kind \in Details
           /\ Request("validate", m, p, f).kind = "validate"
  BY RequestIs DEF Details, Looks

\* Everything that happens on the page.
LEMMA PageStep ==
    ASSUME FileInv(page, TRUE), LinkType, Next
    PROVE  FileInv(page', TRUE)
<1>1. CASE Answers \/ \E f \in Files : DeploymentArrives(f)
  BY <1>1, PageAnswers DEF PageKept
<1>2. ASSUME NEW m \in Machines, SelectMachine(m) PROVE FileInv(page', TRUE)
  <2>1. page' = Render(page, MachineEffects(page, m)) BY <1>2 DEF SelectMachine, Click
  <2>2. FileInv(MachineEffects(page, m), TRUE) BY MachineReady DEF LinkType, FileInv
  <2> QED BY <2>1, <2>2, RenderKeeps DEF FileInv
<1>3. ASSUME NEW f, handleItemClick(f) PROVE FileInv(page', TRUE)
  <2>1. \/ page' = Render(page, [page EXCEPT !.path = Dir])
        \/ page' = Render(page, [page EXCEPT !.path = Root])
        \/ f \in Rows /\ page' = Render(page, [page EXCEPT !.selected = [f |-> f, of |-> page.list.of]])
    BY <1>3 DEF handleItemClick, Click
  <2>2. Renders([page EXCEPT !.path = Dir], TRUE) /\ Renders([page EXCEPT !.path = Root], TRUE)
    BY PathRenders, PathsKnown
  <2> QED BY <2>1, <2>2, SelectRenders DEF Renders
<1>4. ASSUME NEW f, handleDownload(f) \/ handleViewCode(f) PROVE FileInv(page', TRUE)
  <2> PICK q : q.kind \in Details /\ page' = Render(page, Fetch(page, {q}))
    BY <1>4, RequestKinds DEF handleDownload, handleViewCode, Click
  <2> QED BY AskRenders DEF Renders
<1>5. ASSUME NEW f, handleValidate(f) PROVE FileInv(page', TRUE)
  <2> PICK q : q.kind = "validate"
        /\ page' = Render(page, Fetch([page EXCEPT !.validating = TRUE, !.fresh = None], {q}))
    BY <1>5, RequestKinds DEF handleValidate, Click
  <2> QED BY ValidateRenders DEF Renders
<1>6. CASE CloseView
  <2>1. page' = Render(page, [page EXCEPT !.view = None]) BY <1>6 DEF CloseView, Click
  <2> QED BY <2>1, ClickRenders DEF Renders
<1>7. ASSUME NEW id, PickDeployment(id) PROVE FileInv(page', TRUE)
  <2>1. page' = Render(page, [page EXCEPT !.picked = id]) BY <1>7 DEF PickDeployment, Click
  <2> QED BY <2>1, ClickRenders DEF Renders
<1>8. CASE Expire BY <1>8 DEF Expire
<1> QED BY <1>1, <1>2, <1>3, <1>4, <1>5, <1>6, <1>7, <1>8 DEF Next

-----------------------------------------------------------------------------
(* The pane *)

LEMMA ValidatedRenders ==
    ASSUME NEW onPage, FileInv(page, onPage), NEW r, r.kind \notin {"programs", "path"},
           NEW x, NEW y
    PROVE  Settles([[Done(page, r) EXCEPT !.seq = x, !.detail = y]
                      EXCEPT !.fresh = None, !.validating = FALSE], onPage)
<1> DEFINE d == Done(page, r)
           e == [d EXCEPT !.seq = x, !.detail = y]
           s == [e EXCEPT !.fresh = None, !.validating = FALSE]
<1>1. PageShape(d) /\ d.error = page.error BY DoneIs DEF FileInv, Ready, Fields
<1> HIDE DEF d
<1>2. PageShape(e) BY <1>1 DEF PageShape
<1>3. Beside(d, e) /\ e.error = d.error BY <1>1, <1>2 DEF Beside, PageShape, Fields
<1> HIDE DEF e
<1>4. PageShape(s) BY <1>2 DEF PageShape
<1>5. Beside(e, s) /\ s.error = e.error BY <1>2, <1>4 DEF Beside, PageShape, Fields
<1> HIDE DEF s
<1>6. Beside(d, s) /\ s.error = d.error BY <1>3, <1>5 DEF Beside
<1> QED BY <1>1, <1>6, BesideRenders DEF d, e, s

\* After an upload another list is asked for, and the error is gone.
LEMMA UploadRenders ==
    ASSUME FileInv(page, FALSE), NEW q, q.kind = "upload" \/ q.kind = "relist",
           NEW s, \/ s = page
                  \/ \E r : s = Done(page, r) /\ r.kind \notin {"programs", "path"},
           NEW t, t = [s EXCEPT !.error = FALSE]
    PROVE  Renders(Fetch(t, {q}), FALSE)
<1>0. q.kind \in Details \cup {"deploy", "validate", "relist"} BY DEF Details, Looks
<1>1. PageShape(s) BY DoneIs DEF FileInv, Ready
<1>2. PageShape(t) BY <1>1 DEF PageShape
<1>3. Beside(s, t) BY <1>1, <1>2 DEF Beside, PageShape, Fields
<1>4. Quiet(page, t, FALSE) BY <1>3, BesideQuiet, DoneQuiet
<1> QED BY <1>0, <1>4, FetchRenders

\* The list that an upload asks for takes the place of any other.
LEMMA RelistRenders ==
    ASSUME FileInv(page, FALSE), NEW r, r.kind = "relist", NEW ok \in BOOLEAN
    PROVE  LET t == [Done(page, r) EXCEPT
                       !.list = IF ok THEN [of |-> <<r.m, r.p>>, notes |-> {}] ELSE @]
           IN  FileInv(PaneRender(page, t), FALSE)
<1> DEFINE d == Done(page, r)
           t == [d EXCEPT !.list = IF ok THEN [of |-> <<r.m, r.p>>, notes |-> {}] ELSE @]
<1>1. /\ PageShape(d) /\ d.list = page.list /\ d.loading = page.loading /\ d.error = page.error
      /\ d.machine = page.machine /\ d.path = page.path /\ d.pathLoading = page.pathLoading
      /\ d.requests = page.requests \ {r}
  BY DoneIs DEF FileInv, Ready, Fields
<1> HIDE DEF d
<1>2. /\ PageShape(t) /\ t.loading = page.loading /\ t.error = page.error
      /\ t.list = (IF ok THEN Shows(<<r.m, r.p>>) ELSE page.list)
      /\ t.machine = page.machine /\ t.path = page.path /\ t.pathLoading = page.pathLoading
      /\ t.requests = page.requests \ {r}
  BY <1>1 DEF PageShape, Fields, Shows
<1> HIDE DEF t
<1>3. ListShape(t)
  <2>1. CASE ok BY <1>2, <2>1 DEF ListShape, Shows, NoList
  <2>2. CASE ~ok BY <1>2, <2>2 DEF ListShape, FileInv, Ready
  <2> QED BY <2>1, <2>2
<1>4. PathDue(t) BY <1>2 DEF PathDue, FileInv, Ready
<1>5. AsksMatch(t) BY <1>2 DEF AsksMatch, FileInv, Located, HereOf
<1>6. ListDue(t, FALSE) BY <1>2 DEF ListDue, FileInv, HereOf
<1>7. FileInv(t, FALSE) BY <1>2, <1>3, <1>4, <1>5, <1>6 DEF FileInv, Ready
<1> QED BY <1>7, RenderKeeps DEF FileInv, t, d

\* While the path of a pane is on its way nothing is shown, and nothing but the
\* badges is asked for besides it.
Waiting(s) ==
    s.pathLoading =>
      /\ s.list = NoList /\ s.selected = None /\ s.view = None /\ s.path = None
      /\ \A r \in s.requests : r.kind \in {"path", "badges"}

PaneInv(s) == FileInv(s, FALSE) /\ s.machine \in Machines /\ Waiting(s)

\* The list of an upload has come.
Relisted ==
    /\ \E r \in Answer("relist") : page'.list.of = <<r.m, r.p>>
    /\ page'.machine = page.machine
    /\ ~page.pathLoading => ~page'.pathLoading

PaneKept == FileInv(page', FALSE) /\ (Moves(page') \/ Relisted)

\* A list that arrives is of the directory shown.
LEMMA ListMoves ==
    ASSUME PaneInv(page), NEW r \in page.requests, r.kind = "programs", NEW ok \in BOOLEAN
    PROVE  LET t == [Done(page, r) EXCEPT !.loading = FALSE,
                       !.list = IF ok THEN [of |-> <<r.m, r.p>>, notes |-> {}] ELSE @,
                       !.error = IF ok THEN @ ELSE TRUE]
           IN  Moves(PaneRender(page, t))
<1> DEFINE d == Done(page, r)
           t == [d EXCEPT !.loading = FALSE,
                      !.list = IF ok THEN [of |-> <<r.m, r.p>>, notes |-> {}] ELSE @,
                      !.error = IF ok THEN @ ELSE TRUE]
           u == PaneRender(page, t)
<1>1. /\ PageShape(d) /\ d.list = page.list
      /\ d.machine = page.machine /\ d.path = page.path /\ d.pathLoading = page.pathLoading
  BY DoneIs DEF PaneInv, FileInv, Ready, Fields
<1> HIDE DEF d
<1>2. /\ PageShape(t) /\ t.list = (IF ok THEN Shows(<<r.m, r.p>>) ELSE d.list)
      /\ t.machine = d.machine /\ t.path = d.path /\ t.pathLoading = d.pathLoading
  BY <1>1 DEF PageShape, Fields, Shows
<1> HIDE DEF t
<1>3. /\ HereOf(u) = HereOf(t) /\ u.pathLoading = t.pathLoading
      /\ u.list.of \in {t.list.of, HereOf(t), NoList.of}
  BY <1>2, PaneRenderIs
<1> HIDE DEF u
<1>4. Located(page)
  <2>1. ~page.pathLoading BY DEF PaneInv, Waiting
  <2>2. page.machine # None BY PathsAssumption DEF PaneInv
  <2> QED BY <2>1, <2>2 DEF Located, PaneInv, FileInv, Ready, PathDue
<1>5. <<r.m, r.p>> = HereOf(page)
  BY <1>4 DEF PaneInv, FileInv, AsksMatch
<1>6. t.list.of \in {page.list.of, HereOf(t)}
  BY <1>1, <1>2, <1>5 DEF HereOf, Shows
<1> QED BY <1>1, <1>2, <1>3, <1>6 DEF Moves, HereOf, u, t, d

LEMMA RelistMoves ==
    ASSUME PaneInv(page), NEW r \in Answer("relist"), NEW ok \in BOOLEAN,
           page' = PaneRender(page, [Done(page, r) EXCEPT
                              !.list = IF ok THEN [of |-> <<r.m, r.p>>, notes |-> {}] ELSE @])
    PROVE  Moves(page') \/ Relisted
<1> DEFINE d == Done(page, r)
           t == [d EXCEPT !.list = IF ok THEN [of |-> <<r.m, r.p>>, notes |-> {}] ELSE @]
<1>1. /\ PageShape(d) /\ d.list = page.list
      /\ d.machine = page.machine /\ d.path = page.path /\ d.pathLoading = page.pathLoading
  BY DoneIs DEF PaneInv, FileInv, Ready, Fields
<1> HIDE DEF d
<1>2. /\ PageShape(t) /\ t.list = (IF ok THEN Shows(<<r.m, r.p>>) ELSE d.list)
      /\ t.machine = d.machine /\ t.path = d.path /\ t.pathLoading = d.pathLoading
  BY <1>1 DEF PageShape, Fields, Shows
<1>3. page' = PaneRender(page, t) BY DEF d
<1> HIDE DEF t
<1>4. /\ HereOf(page') = HereOf(t) /\ page'.pathLoading = t.pathLoading
      /\ page'.list.of \in {t.list.of, HereOf(t), NoList.of}
  BY <1>2, <1>3, PaneRenderIs
<1>5. t.list.of \in {page.list.of, <<r.m, r.p>>}
  BY <1>1, <1>2 DEF Shows
<1>6. page'.machine = page.machine BY <1>1, <1>2, <1>4 DEF HereOf
<1> QED BY <1>1, <1>2, <1>4, <1>5, <1>6 DEF Moves, Relisted

LEMMA RecordedMoves ==
    ASSUME PaneInv(page), NEW r
    PROVE  Moves(PaneHistoryEffect(page, PaneSelectionEffect(page, LinkEffect(page, Recorded(r)))))
<1> DEFINE d == Done(page, r)
           s == [d EXCEPT !.refresh = 1 - @]
           a == Abort(s, {"programs"})
           e == [a EXCEPT !.list = NoList, !.loading = TRUE, !.error = FALSE, !.selected = None]
           g == Fetch(e, {Request("programs", r.m, r.p, None)})
           h == ProgramsEffect(page, s)
           t == IF <<page.machine, page.path>> = <<r.m, r.p>> THEN g ELSE h
           v == Fetch(t, {Request("validated", r.m, None, r.f)})
           u == PaneHistoryEffect(page, PaneSelectionEffect(page, LinkEffect(page, v)))
<1>1. /\ PageShape(d) /\ d.list = page.list
      /\ d.machine = page.machine /\ d.path = page.path /\ d.pathLoading = page.pathLoading
  BY DoneIs DEF PaneInv, FileInv, Ready, Fields
<1> HIDE DEF d
<1>2. /\ PageShape(s) /\ s.list = page.list
      /\ s.machine = page.machine /\ s.path = page.path /\ s.pathLoading = page.pathLoading
  BY <1>1 DEF PageShape, Fields
<1> HIDE DEF s
<1>3. /\ PageShape(a)
      /\ a.machine = page.machine /\ a.path = page.path /\ a.pathLoading = page.pathLoading
  BY <1>2, AbortIs DEF Fields
<1> HIDE DEF a
<1>4. /\ PageShape(e) /\ e.list = NoList
      /\ e.machine = page.machine /\ e.path = page.path /\ e.pathLoading = page.pathLoading
  BY <1>3 DEF PageShape, Fields
<1> HIDE DEF e
<1>5. /\ PageShape(g) /\ g.list = NoList
      /\ g.machine = page.machine /\ g.path = page.path /\ g.pathLoading = page.pathLoading
  BY <1>4, FetchIs DEF Fields
<1> HIDE DEF g
<1>6. /\ PageShape(h) /\ HereOf(h) = HereOf(s) /\ h.pathLoading = s.pathLoading
      /\ h.list.of \in {s.list.of, HereOf(s), NoList.of}
  BY <1>2, ProgramsIs
<1> HIDE DEF h
<1>7. /\ PageShape(t) /\ HereOf(t) = HereOf(page) /\ t.pathLoading = page.pathLoading
      /\ t.list.of \in {page.list.of, HereOf(page), NoList.of}
  BY <1>2, <1>5, <1>6 DEF HereOf
<1> HIDE DEF t
<1>8. /\ PageShape(v) /\ v.machine = t.machine /\ v.path = t.path
      /\ v.pathLoading = t.pathLoading /\ v.list = t.list
  BY <1>7, FetchIs DEF Fields
<1>9. v = Recorded(r) BY DEF Recorded, t, h, g, e, a, s, d
<1> HIDE DEF v
<1>10. /\ u.machine = v.machine /\ u.path = v.path /\ u.pathLoading = v.pathLoading
       /\ u.list = v.list
  BY <1>8, EffectsStay
<1> HIDE DEF u
<1>11. Moves(u) BY <1>7, <1>8, <1>10 DEF Moves, HereOf
<1> QED BY <1>9, <1>11 DEF u

\* Every answer to the pane.
LEMMA PaneAnswersKeep ==
    ASSUME PaneInv(page), PaneAnswers \/ \E f \in Files : PaneDeploymentArrives(f)
    PROVE  PaneKept /\ PaneLinked
<1> FileInv(page, FALSE) BY DEF PaneInv
<1>1. ASSUME PanePathArrives PROVE PaneKept /\ PaneLinked
  <2> PICK r \in Answer("path"), ok \in BOOLEAN :
        page' = PaneRender(page, [Done(page, r) EXCEPT !.pathLoading = FALSE,
                                    !.path = IF ok THEN Default[r.m] ELSE Root])
    BY <1>1 DEF PanePathArrives, PaneBecomes
  <2> DEFINE p == IF ok THEN Default[r.m] ELSE Root
             t == [Done(page, r) EXCEPT !.pathLoading = FALSE, !.path = p]
  <2>1. r \in page.requests /\ r.kind = "path" BY AnswersAre
  <2>2. r.m \in Machines BY <2>1 DEF FileInv, Ready, PathDue
  <2>3. p \in Paths BY <2>2, PathsAssumption DEF Paths
  <2>4. p # None BY <2>3, PathsAssumption
  <2> HIDE DEF p
  <2>5. Renders(t, FALSE) BY <2>1, <2>4, PathKnown
  <2>6. LinkKept(t) BY <2>1, <2>3, PathKeepsLink
  <2>7. page' = PaneRender(page, t) BY DEF p
  <2> HIDE DEF t
  <2> QED BY <2>5, <2>6, <2>7 DEF Renders, LinkKept, PaneKept, PaneLinked
<1>2. ASSUME PaneProgramsArrive PROVE PaneKept /\ PaneLinked
  <2> PICK r \in Answer("programs"), ok \in BOOLEAN :
        page' = PaneRender(page, [Done(page, r) EXCEPT !.loading = FALSE,
                    !.list = IF ok THEN [of |-> <<r.m, r.p>>, notes |-> {}] ELSE @,
                    !.error = IF ok THEN @ ELSE TRUE])
    BY <1>2 DEF PaneProgramsArrive, PaneBecomes
  <2> DEFINE t == [Done(page, r) EXCEPT !.loading = FALSE,
                    !.list = IF ok THEN [of |-> <<r.m, r.p>>, notes |-> {}] ELSE @,
                    !.error = IF ok THEN @ ELSE TRUE]
  <2>1. r \in page.requests /\ r.kind = "programs" BY AnswersAre
  <2>2. FileInv(PaneRender(page, t), FALSE) BY <2>1, ListArrives, RenderKeeps DEF FileInv
  <2>3. Moves(PaneRender(page, t)) BY <2>1, ListMoves
  <2>4. LinkKept(t) BY <2>1, ListKeepsLink
  <2>5. page' = PaneRender(page, t) OBVIOUS
  <2> HIDE DEF t
  <2> QED BY <2>2, <2>3, <2>4, <2>5 DEF LinkKept, PaneKept, PaneLinked
<1>3. ASSUME PaneBadgesArrive PROVE PaneKept /\ PaneLinked
  <2> PICK r, x :
        /\ r \in Answer("badges")
        /\ page' = PaneRender(page, [Done(page, r) EXCEPT !.badges = x])
    BY <1>3 DEF PaneBadgesArrive, PaneBecomes
  <2>1. r.kind \notin {"programs", "path"} BY AnswersAre
  <2>2. Settles([Done(page, r) EXCEPT !.badges = x], FALSE) BY <2>1, BadgesRender
  <2> QED BY <2>2 DEF Settles, Renders, LinkKept, PaneKept, PaneLinked
<1>4. ASSUME PanePreviewArrives PROVE PaneKept /\ PaneLinked
  <2> PICK r, x :
        /\ r \in Answer("preview")
        /\ page' = PaneRender(page, [Done(page, r) EXCEPT !.preview = x])
    BY <1>4 DEF PanePreviewArrives, PaneBecomes
  <2>1. r.kind \notin {"programs", "path"} BY AnswersAre
  <2>2. Settles([Done(page, r) EXCEPT !.preview = x], FALSE) BY <2>1, PreviewRenders
  <2> QED BY <2>2 DEF Settles, Renders, LinkKept, PaneKept, PaneLinked
<1>5. ASSUME PaneMetadataArrives PROVE PaneKept /\ PaneLinked
  <2> PICK r \in Answer("metadata"), ok \in BOOLEAN :
        page' = PaneRender(page, [Done(page, r) EXCEPT
                     !.list.notes = IF ok /\ r.d = page.list.of[2] /\ r.f \in Listed(page)
                                    THEN {n \in @ : n[1] # r.f} \cup {<<r.f, r.m>>} ELSE @])
    BY <1>5 DEF PaneMetadataArrives, PaneBecomes
  <2> DEFINE yes == ok /\ r.d = page.list.of[2] /\ r.f \in Listed(page)
  <2>1. yes \in BOOLEAN /\ (yes => r.f \in Listed(page)) OBVIOUS
  <2>2. page' = PaneRender(page, [Done(page, r) EXCEPT
                    !.list.notes = IF yes THEN {n \in @ : n[1] # r.f} \cup {<<r.f, r.m>>} ELSE @])
    OBVIOUS
  <2> HIDE DEF yes
  <2> DEFINE t == [Done(page, r) EXCEPT
                    !.list.notes = IF yes THEN {n \in @ : n[1] # r.f} \cup {<<r.f, r.m>>} ELSE @]
  <2>3. Quiet(page, t, FALSE) /\ Same(page, t) BY <2>1, AnswersAre, NotesQuiet
  <2>4. page' = PaneRender(page, t) BY <2>2
  <2> HIDE DEF t
  <2>5. Settles(t, FALSE) BY <2>3, SameSettles
  <2> QED BY <2>4, <2>5 DEF Settles, Renders, LinkKept, PaneKept, PaneLinked
<1>6. ASSUME PaneDetailArrives PROVE PaneKept /\ PaneLinked
  <2> PICK r, x, y :
        /\ r \in Answer("detail") \cup Answer("validated")
        /\ \/ page' = PaneRender(page, [Done(page, r) EXCEPT !.seq = x, !.detail = y])
           \/ page' = PaneRender(page, [[Done(page, r) EXCEPT !.seq = x, !.detail = y]
                                          EXCEPT !.fresh = None, !.validating = FALSE])
    BY <1>6 DEF PaneDetailArrives, PaneBecomes
  <2>1. r.kind \notin {"programs", "path"} BY DEF Answer
  <2>2. Settles([Done(page, r) EXCEPT !.seq = x, !.detail = y], FALSE) BY <2>1, NumberedRenders
  <2>3. Settles([[Done(page, r) EXCEPT !.seq = x, !.detail = y]
                   EXCEPT !.fresh = None, !.validating = FALSE], FALSE)
    BY <2>1, ValidatedRenders
  <2> QED BY <2>2, <2>3 DEF Settles, Renders, LinkKept, PaneKept, PaneLinked
<1>7. ASSUME PaneViewArrives PROVE PaneKept /\ PaneLinked
  <2> PICK r \in Answer("view") :
        \/ \E x : page' = PaneRender(page, [Done(page, r) EXCEPT !.view = x])
        \/ page' = PaneRender(page, [Done(page, r) EXCEPT !.error = TRUE])
    BY <1>7 DEF PaneViewArrives, PaneBecomes
  <2>1. r.kind \notin {"programs", "path"} BY AnswersAre
  <2>2. \A x : Settles([Done(page, r) EXCEPT !.view = x], FALSE) BY <2>1, ViewRenders
  <2>3. Settles([Done(page, r) EXCEPT !.error = TRUE], FALSE) BY <2>1, ErrorRenders
  <2> QED BY <2>2, <2>3 DEF Settles, Renders, LinkKept, PaneKept, PaneLinked
<1>8. ASSUME PaneDownloadArrives PROVE PaneKept /\ PaneLinked
  <2> PICK r, x :
        /\ r \in Answer("download")
        /\ page' = PaneRender(page, [Done(page, r) EXCEPT !.error = x])
    BY <1>8 DEF PaneDownloadArrives, PaneBecomes
  <2>1. r.kind \notin {"programs", "path"} BY AnswersAre
  <2>2. Settles([Done(page, r) EXCEPT !.error = x], FALSE) BY <2>1, ErrorRenders
  <2> QED BY <2>2 DEF Settles, Renders, LinkKept, PaneKept, PaneLinked
<1>9. ASSUME PaneValidateArrives PROVE PaneKept /\ PaneLinked
  <2> PICK r \in Answer("validate") :
      \/ page' = PaneRender(page, Fetch([Done(page, r) EXCEPT !.fresh = <<r.m, r.p, r.f>>],
                              {Request("deploy", r.m, r.p, r.f)}))
      \/ page' = PaneRender(page, [Done(page, r) EXCEPT !.validating = FALSE])
    BY <1>9 DEF PaneValidateArrives, PaneBecomes
  <2>1. r.kind \notin {"programs", "path"} BY AnswersAre
  <2>2. PaneLinked BY AnswersAre, NothingStarted DEF PaneLinked
  <2> QED BY <2>1, <2>2, CheckedRenders, DeployAsked DEF Settles, Renders, PaneKept
<1>10. ASSUME PaneDeployArrives PROVE PaneKept /\ PaneLinked
  <2> PICK r \in Answer("deploy") :
        \/ page' = PaneHistoryEffect(page, PaneSelectionEffect(page, LinkEffect(page, Recorded(r))))
        \/ page' = PaneRender(page, [Done(page, r) EXCEPT !.validating = FALSE])
    BY <1>10 DEF PaneDeployArrives, PaneBecomes
  <2>1. r.kind = "deploy" BY AnswersAre
  <2>2. FileInv(PaneHistoryEffect(page, PaneSelectionEffect(page, LinkEffect(page, Recorded(r)))),
                FALSE)
    BY <2>1, RecordedKeeps, EffectsKeep
  <2>3. Moves(PaneHistoryEffect(page, PaneSelectionEffect(page, LinkEffect(page, Recorded(r)))))
    BY <2>1, RecordedMoves
  <2>4. PaneLinked BY AnswersAre, NothingStarted DEF PaneLinked
  <2> QED BY <2>1, <2>2, <2>3, <2>4, CheckedRenders DEF Settles, Renders, PaneKept
<1>11. ASSUME UploadArrives PROVE PaneKept /\ PaneLinked
  <2> PICK r \in Answer("upload") :
        \/ page' = PaneRender(page, Fetch([Done(page, r) EXCEPT !.error = FALSE],
                                {Request("relist", r.m, r.p, None)}))
        \/ page' = PaneRender(page, [Done(page, r) EXCEPT !.error = TRUE])
    BY <1>11 DEF UploadArrives, PaneBecomes
  <2>1. r.kind \notin {"programs", "path"} BY AnswersAre
  <2>2. Settles([Done(page, r) EXCEPT !.error = TRUE], FALSE) BY <2>1, ErrorRenders
  <2> DEFINE q == Request("relist", r.m, r.p, None)
             s == Done(page, r)
             t == [s EXCEPT !.error = FALSE]
  <2>3. q.kind = "relist" BY RequestIs
  <2>4. t = [s EXCEPT !.error = FALSE] OBVIOUS
  <2> HIDE DEF q, s, t
  <2>5. Renders(Fetch(t, {q}), FALSE) BY <2>1, <2>3, <2>4, UploadRenders DEF s
  <2>6. PaneLinked BY AnswersAre, NothingStarted DEF PaneLinked
  <2> QED BY <2>2, <2>5, <2>6 DEF Settles, Renders, PaneKept, q, s, t
<1>12. ASSUME RelistArrives PROVE PaneKept /\ PaneLinked
  <2> PICK r \in Answer("relist"), ok \in BOOLEAN :
        page' = PaneRender(page, [Done(page, r) EXCEPT
                     !.list = IF ok THEN [of |-> <<r.m, r.p>>, notes |-> {}] ELSE @])
    BY <1>12 DEF RelistArrives, PaneBecomes
  <2> DEFINE t == [Done(page, r) EXCEPT
                     !.list = IF ok THEN [of |-> <<r.m, r.p>>, notes |-> {}] ELSE @]
  <2>1. r.kind = "relist" /\ r \in Answer("relist") BY AnswersAre
  <2>2. FileInv(PaneRender(page, t), FALSE) BY <2>1, RelistRenders
  <2>3. Moves(PaneRender(page, t)) \/ Relisted BY <2>1, RelistMoves
  <2>4. PaneLinked BY AnswersAre, NothingStarted DEF PaneLinked
  <2> QED BY <2>2, <2>3, <2>4 DEF PaneKept
<1>13. ASSUME NEW f \in Files, PaneDeploymentArrives(f) PROVE PaneKept /\ PaneLinked
  <2> PICK r \in Answer("deployment") :
        \/ \E x : page' = PaneRender(page, [Done(page, r) EXCEPT !.detail = x])
        \/ page' = PaneRender(page, Done(page, r))
    BY <1>13 DEF PaneDeploymentArrives, PaneBecomes
  <2>1. r.kind \notin {"programs", "path"} BY AnswersAre
  <2>2. \A x : Settles([Done(page, r) EXCEPT !.detail = x], FALSE) BY <2>1, DetailRenders
  <2>3. Settles(Done(page, r), FALSE) BY <2>1, NothingRenders
  <2> QED BY <2>2, <2>3 DEF Settles, Renders, LinkKept, PaneKept, PaneLinked
<1> QED BY <1>1, <1>2, <1>3, <1>4, <1>5, <1>6, <1>7, <1>8, <1>9, <1>10, <1>11, <1>12, <1>13
        DEF PaneAnswers

\* Everything that happens in the pane.
LEMMA PaneStep ==
    ASSUME PaneInv(page), PaneNext
    PROVE  PaneKept
<1> FileInv(page, FALSE) BY DEF PaneInv
<1>1. CASE PaneAnswers \/ \E f \in Files : PaneDeploymentArrives(f) BY <1>1, PaneAnswersKeep
<1>2. ASSUME NEW f, PaneItemClick(f) PROVE PaneKept
  <2>1. \/ page' = PaneRender(page, [page EXCEPT !.path = Dir])
        \/ page' = PaneRender(page, [page EXCEPT !.path = Root])
        \/ /\ f \in Rows
           /\ page' = PaneRender(page, [page EXCEPT !.selected = [f |-> f, of |-> page.list.of]])
    BY <1>2 DEF PaneItemClick, PaneClick, PaneRows, Rows
  <2>2. Renders([page EXCEPT !.path = Dir], FALSE) /\ Renders([page EXCEPT !.path = Root], FALSE)
    BY PathRenders, PathsKnown
  <2> QED BY <2>1, <2>2, SelectRenders DEF Renders, PaneKept
<1>3. ASSUME NEW f, PaneDownload(f) \/ PaneViewCode(f) PROVE PaneKept
  <2> PICK q : q.kind \in Details /\ page' = PaneRender(page, Fetch(page, {q}))
    BY <1>3, RequestKinds DEF PaneDownload, PaneViewCode, PaneClick
  <2> QED BY AskRenders DEF Renders, PaneKept
<1>4. ASSUME NEW f, PaneValidate(f) PROVE PaneKept
  <2> PICK q : q.kind = "validate"
        /\ page' = PaneRender(page, Fetch([page EXCEPT !.validating = TRUE, !.fresh = None], {q}))
    BY <1>4, RequestKinds DEF PaneValidate, PaneClick
  <2> QED BY ValidateRenders DEF Renders, PaneKept
<1>5. ASSUME NEW f, handleFileSelect(f) PROVE PaneKept
  <2> DEFINE q == Request("upload", page.machine, page.path, f)
  <2>1. q.kind = "upload" BY RequestIs
  <2>2. page' = PaneRender(page, Fetch([page EXCEPT !.error = FALSE], {q}))
    BY <1>5 DEF handleFileSelect, PaneClick
  <2> HIDE DEF q
  <2> DEFINE t == [page EXCEPT !.error = FALSE]
  <2>3. t = [page EXCEPT !.error = FALSE] OBVIOUS
  <2> HIDE DEF t
  <2>4. Renders(Fetch(t, {q}), FALSE) BY <2>1, <2>3, UploadRenders
  <2> QED BY <2>2, <2>4 DEF Renders, PaneKept, t
<1>6. CASE PaneCloseView
  <2>1. page' = PaneRender(page, [page EXCEPT !.view = None]) BY <1>6 DEF PaneCloseView, PaneClick
  <2> QED BY <2>1, ClickRenders DEF Renders, PaneKept
<1>7. ASSUME NEW id, PanePickDeployment(id) PROVE PaneKept
  <2>1. page' = PaneRender(page, [page EXCEPT !.picked = id])
    BY <1>7 DEF PanePickDeployment, PaneClick
  <2> QED BY <2>1, ClickRenders DEF Renders, PaneKept
<1>8. CASE Expire BY <1>8 DEF Expire, PaneKept, PaneInv, Moves
<1> QED BY <1>1, <1>2, <1>3, <1>4, <1>5, <1>6, <1>7, <1>8 DEF PaneNext

\* While it waits nothing but the path, the badges and the clock can come.
LEMMA OnlyPathComes ==
    ASSUME PaneInv(page), page.pathLoading, PaneNext
    PROVE  PanePathArrives \/ PaneBadgesArrive \/ Expire
<1>1. /\ page.list = NoList /\ page.selected = None /\ page.view = None /\ page.path = None
      /\ \A r \in page.requests : r.kind \in {"path", "badges"}
  BY DEF PaneInv, Waiting
<1>2. \A kind : kind \notin {"path", "badges"} => Answer(kind) = {} BY <1>1 DEF Answer
<1>3. PaneRows = {} BY <1>1 DEF PaneRows, Listed
<1>4. PaneAnswers => PanePathArrives \/ PaneBadgesArrive
  <2>1. /\ Answer("programs") = {} /\ Answer("preview") = {} /\ Answer("metadata") = {}
        /\ Answer("detail") = {} /\ Answer("validated") = {} /\ Answer("view") = {}
        /\ Answer("download") = {} /\ Answer("validate") = {} /\ Answer("deploy") = {}
        /\ Answer("upload") = {} /\ Answer("relist") = {}
    BY <1>2
  <2> QED BY <2>1 DEF PaneAnswers, PaneProgramsArrive, PanePreviewArrives, PaneMetadataArrives,
       PaneDetailArrives, PaneViewArrives, PaneDownloadArrives, PaneValidateArrives,
       PaneDeployArrives, UploadArrives, RelistArrives
<1>5. \A f : ~PaneDeploymentArrives(f)
  <2>1. Answer("deployment") = {} BY <1>2
  <2> QED BY <2>1 DEF PaneDeploymentArrives
<1>6. \A f : ~PaneItemClick(f) BY <1>1, <1>3 DEF PaneItemClick
<1>7. \A f : ~PaneDownload(f) /\ ~PaneViewCode(f) /\ ~PaneValidate(f) /\ ~handleFileSelect(f)
  BY <1>1 DEF PaneDownload, PaneViewCode, PaneValidate, handleFileSelect
<1>8. ~PaneCloseView BY <1>1 DEF PaneCloseView
<1>9. \A id : ~PanePickDeployment(id) BY <1>1 DEF PanePickDeployment, PaneHistoryOffered
<1> QED BY <1>4, <1>5, <1>6, <1>7, <1>8, <1>9 DEF PaneNext

LEMMA WaitingStep ==
    ASSUME PaneInv(page), PaneNext
    PROVE  Waiting(page')
<1>1. CASE ~page.pathLoading
  <2>1. ~page'.pathLoading BY <1>1, PaneStep DEF PaneKept, Moves, Relisted
  <2> QED BY <2>1 DEF Waiting
<1>2. CASE PanePathArrives
  <2> PICK r, p :
        /\ r \in Answer("path")
        /\ page' = PaneRender(page, [Done(page, r) EXCEPT !.pathLoading = FALSE, !.path = p])
    BY <1>2 DEF PanePathArrives, PaneBecomes
  <2> DEFINE d == Done(page, r)
             t == [d EXCEPT !.pathLoading = FALSE, !.path = p]
  <2>1. PageShape(d) BY DoneIs DEF PaneInv, FileInv, Ready
  <2> HIDE DEF d
  <2>2. PageShape(t) /\ t.pathLoading = FALSE BY <2>1 DEF PageShape, Fields
  <2>3. page' = PaneRender(page, t) BY DEF d
  <2> HIDE DEF t
  <2>4. ~page'.pathLoading BY <2>2, <2>3, PaneRenderIs
  <2> QED BY <2>4 DEF Waiting
<1>3. CASE page.pathLoading /\ PaneBadgesArrive
  <2> PICK r, x :
        /\ r \in Answer("badges")
        /\ page' = PaneRender(page, [Done(page, r) EXCEPT !.badges = x])
    BY <1>3 DEF PaneBadgesArrive, PaneBecomes
  <2> DEFINE d == Done(page, r)
             t == [d EXCEPT !.badges = x]
  <2>1. /\ PageShape(d) /\ \A k \in Fields \ {"requests"} : d[k] = page[k]
        /\ d.requests = page.requests \ {r}
    BY DoneIs DEF PaneInv, FileInv, Ready
  <2> HIDE DEF d
  <2>2. /\ \A k \in Fields \ {"requests", "badges"} : t[k] = page[k]
        /\ t.requests = page.requests \ {r}
    BY <2>1 DEF PageShape, Fields
  <2>3. page' = PaneRender(page, t) BY DEF d
  <2> HIDE DEF t
  <2>4. /\ t.machine = page.machine /\ t.path = page.path /\ t.pathLoading = page.pathLoading
        /\ t.refresh = page.refresh /\ t.list = page.list /\ t.loading = page.loading
        /\ t.selected = page.selected /\ t.picked = page.picked /\ t.detail = page.detail
        /\ t.view = page.view
    BY <2>2 DEF Fields
  <2>5. ProgramsEffect(page, t) = t BY <2>4 DEF ProgramsEffect
  <2>6. LinkEffect(page, t) = t BY <2>4 DEF LinkEffect, Listed
  <2>7. PaneSelectionEffect(page, t) = t BY <2>4 DEF PaneSelectionEffect
  <2>8. PaneHistoryEffect(page, t) = t BY <2>4 DEF PaneHistoryEffect
  <2>9. page' = t BY <2>3, <2>5, <2>6, <2>7, <2>8 DEF PaneRender, PaneProgramsEffect
  <2> QED BY <2>2, <2>4, <2>9 DEF PaneInv, Waiting
<1>4. CASE Expire BY <1>4 DEF Expire, PaneInv
<1> QED BY <1>1, <1>2, <1>3, <1>4, OnlyPathComes

-----------------------------------------------------------------------------
(* The upload dialog *)

DialogFields == {"machine", "filename", "content", "result", "open", "validating", "number",
                 "loading", "uploading", "error", "success", "deployed", "countdown", "requests"}

DialogShape(d) == d = [k \in DialogFields |-> d[k]]

Asked(d, kind) == \E r \in d.requests : r.kind = kind

\* What is waited for is under way, and what is recorded was sent before.
DialogInv(d, took, kept) ==
    /\ DialogShape(d) /\ d.machine \in Machines
    /\ d.validating => Asked(d, "check")
    /\ d.loading => Asked(d, "number")
    /\ d.uploading => Asked(d, "upload") \/ Asked(d, "record")
    /\ \A r \in d.requests : r.kind = "upload" => r = [kind |-> r.kind, f |-> r.f, n |-> r.n, id |-> r.id]
    /\ \A r \in d.requests : r.kind = "record" => [n |-> r.n, f |-> r.f] \in took
    /\ d.success => /\ d.deployed \in took \cap kept
                    /\ d.countdown \in Nat /\ d.countdown > 0

LEMMA AskIs ==
    ASSUME NEW d, DialogShape(d), NEW r
    PROVE  /\ DialogShape(Ask(d, r))
           /\ \A k \in DialogFields \ {"requests"} : Ask(d, r)[k] = d[k]
           /\ Ask(d, r).requests = d.requests \cup {r}
  BY DEF Ask, DialogShape, DialogFields

LEMMA AnsweredIs ==
    ASSUME NEW d, DialogShape(d), NEW r
    PROVE  /\ DialogShape(Answered(d, r))
           /\ \A k \in DialogFields \ {"requests"} : Answered(d, r)[k] = d[k]
           /\ Answered(d, r).requests = d.requests \ {r}
  BY DEF Answered, DialogShape, DialogFields

\* A dialog that is closed has nothing to answer for but its number.
LEMMA ClosedIs ==
    ASSUME NEW d, DialogShape(d)
    PROVE  /\ DialogShape(onClose(d))
           /\ onClose(d).machine = d.machine /\ onClose(d).requests = d.requests
           /\ onClose(d).validating = d.validating /\ onClose(d).loading = d.loading
           /\ ~onClose(d).uploading /\ ~onClose(d).success
<1> DEFINE e == Reset(d)
<1>1. /\ DialogShape(e)
      /\ e.machine = d.machine /\ e.requests = d.requests
      /\ e.validating = d.validating /\ e.loading = d.loading
      /\ ~e.uploading /\ ~e.success
  BY DEF Reset, DialogShape, DialogFields
<1> HIDE DEF e
<1> DEFINE c == [e EXCEPT !.open = FALSE, !.result = None, !.filename = None, !.content = None]
<1>2. /\ DialogShape(c)
      /\ c.machine = e.machine /\ c.requests = e.requests
      /\ c.validating = e.validating /\ c.loading = e.loading
      /\ c.uploading = e.uploading /\ c.success = e.success
  BY <1>1 DEF DialogShape, DialogFields
<1>3. onClose(d) = c BY DEF onClose, e
<1> HIDE DEF c
<1> QED BY <1>1, <1>2, <1>3

LEMMA CloseKeeps ==
    ASSUME NEW d, NEW took, NEW kept, DialogInv(d, took, kept)
    PROVE  DialogInv(onClose(d), took, kept)
<1> DEFINE c == onClose(d)
<1>1. DialogShape(d) BY DEF DialogInv
<1>2. /\ DialogShape(c)
      /\ c.machine = d.machine /\ c.requests = d.requests
      /\ c.validating = d.validating /\ c.loading = d.loading
      /\ ~c.uploading /\ ~c.success
  BY <1>1, ClosedIs
<1> HIDE DEF c
<1> QED BY <1>2 DEF DialogInv, Asked, c

DialogHolds == DialogInv(dialog, sent, recorded)

LEMMA SelectKeeps ==
    ASSUME DialogHolds, NEW f, CardFileSelect(f)
    PROVE  DialogHolds'
<1> DEFINE q == [kind |-> "check", f |-> f]
           e == [dialog EXCEPT !.filename = f, !.content = f, !.validating = TRUE]
           d == Ask(e, q)
<1>1. /\ DialogShape(e) /\ e.machine = dialog.machine /\ e.validating = TRUE
      /\ e.loading = dialog.loading /\ e.uploading = dialog.uploading
      /\ e.success = dialog.success /\ e.deployed = dialog.deployed
      /\ e.countdown = dialog.countdown /\ e.requests = dialog.requests
  BY DEF DialogHolds, DialogInv, DialogShape, DialogFields
<1> HIDE DEF e
<1>2. /\ DialogShape(d) /\ d.machine = e.machine /\ d.validating = e.validating
      /\ d.loading = e.loading /\ d.uploading = e.uploading
      /\ d.success = e.success /\ d.deployed = e.deployed
      /\ d.countdown = e.countdown /\ d.requests = e.requests \cup {q}
  BY <1>1, AskIs DEF DialogFields
<1>3. dialog' = d /\ sent' = sent /\ recorded' = recorded
  BY DEF CardFileSelect, Dialog, d, e
<1>4. q.kind = "check" OBVIOUS
<1> HIDE DEF d, q
<1> QED BY <1>1, <1>2, <1>3, <1>4 DEF DialogHolds, DialogInv, Asked

LEMMA CheckKeeps ==
    ASSUME DialogHolds, CheckArrives
    PROVE  DialogHolds'
<1> DEFINE q == [kind |-> "number", f |-> dialog.filename]
<1> PICK r \in Pending("check") :
      LET d == [Answered(dialog, r) EXCEPT !.validating = FALSE]
      IN  \/ dialog' = Ask([d EXCEPT !.result = r.f, !.open = TRUE, !.loading = TRUE], q)
          \/ dialog' = [d EXCEPT !.content = None]
  BY DEF CheckArrives, Dialog
<1> DEFINE a == Answered(dialog, r)
           d == [a EXCEPT !.validating = FALSE]
           e == [d EXCEPT !.result = r.f, !.open = TRUE, !.loading = TRUE]
           c == [d EXCEPT !.content = None]
           g == Ask(e, q)
<1>0. r \in dialog.requests /\ r.kind = "check" BY DEF Pending
<1>1. /\ DialogShape(a) /\ a.machine = dialog.machine /\ a.loading = dialog.loading
      /\ a.uploading = dialog.uploading /\ a.success = dialog.success
      /\ a.deployed = dialog.deployed /\ a.countdown = dialog.countdown
      /\ a.requests = dialog.requests \ {r}
  BY AnsweredIs DEF DialogHolds, DialogInv, DialogFields
<1> HIDE DEF a
<1>2. /\ DialogShape(d) /\ d.machine = a.machine /\ d.loading = a.loading
      /\ d.validating = FALSE
      /\ d.uploading = a.uploading /\ d.success = a.success
      /\ d.deployed = a.deployed /\ d.countdown = a.countdown
      /\ d.requests = a.requests
  BY <1>1 DEF DialogShape, DialogFields
<1> HIDE DEF d
<1>3. /\ DialogShape(e) /\ e.machine = d.machine /\ e.validating = d.validating
      /\ e.uploading = d.uploading /\ e.success = d.success
      /\ e.deployed = d.deployed /\ e.countdown = d.countdown
      /\ e.requests = d.requests
  BY <1>2 DEF DialogShape, DialogFields
<1>4. /\ DialogShape(c) /\ c.machine = d.machine /\ c.loading = d.loading
      /\ c.validating = d.validating
      /\ c.uploading = d.uploading /\ c.success = d.success
      /\ c.deployed = d.deployed /\ c.countdown = d.countdown
      /\ c.requests = d.requests
  BY <1>2 DEF DialogShape, DialogFields
<1> HIDE DEF e, c
<1>5. /\ DialogShape(g) /\ g.machine = e.machine /\ g.validating = e.validating
      /\ g.uploading = e.uploading
      /\ g.success = e.success /\ g.deployed = e.deployed
      /\ g.countdown = e.countdown /\ g.requests = e.requests \cup {q}
  BY <1>3, AskIs DEF DialogFields
<1> HIDE DEF g
<1>6. q.kind = "number" OBVIOUS
<1> HIDE DEF q
<1>7. DialogInv(c, sent, recorded)
  BY <1>0, <1>1, <1>2, <1>4 DEF DialogHolds, DialogInv, Asked
<1>8. DialogInv(g, sent, recorded)
  BY <1>0, <1>1, <1>2, <1>3, <1>5, <1>6 DEF DialogHolds, DialogInv, Asked
<1>9. dialog' = g \/ dialog' = c BY DEF g, e, c, d, a
<1>10. sent' = sent /\ recorded' = recorded BY DEF CheckArrives
<1> QED BY <1>7, <1>8, <1>9, <1>10 DEF DialogHolds

LEMMA NumberKeeps ==
    ASSUME DialogHolds, fetchNextONumber \/ \E n : TypeNumber(n)
    PROVE  DialogHolds'
<1>1. sent' = sent /\ recorded' = recorded BY DEF fetchNextONumber, TypeNumber
<1>2. CASE fetchNextONumber
  <2> PICK r, n :
        /\ r \in Pending("number")
        /\ dialog' = [[Answered(dialog, r) EXCEPT !.loading = FALSE] EXCEPT !.number = n]
    BY <1>2 DEF fetchNextONumber, Dialog
  <2> DEFINE a == Answered(dialog, r)
             b == [a EXCEPT !.loading = FALSE]
             d == [b EXCEPT !.number = n]
  <2>0. r \in dialog.requests /\ r.kind = "number" BY DEF Pending
  <2>1. /\ DialogShape(a) /\ a.machine = dialog.machine /\ a.validating = dialog.validating
        /\ a.uploading = dialog.uploading /\ a.success = dialog.success
        /\ a.deployed = dialog.deployed /\ a.countdown = dialog.countdown
        /\ a.requests = dialog.requests \ {r}
    BY AnsweredIs DEF DialogHolds, DialogInv, DialogFields
  <2> HIDE DEF a
  <2>2. /\ DialogShape(b) /\ b.machine = a.machine /\ b.loading = FALSE
        /\ b.validating = a.validating
        /\ b.uploading = a.uploading /\ b.success = a.success
        /\ b.deployed = a.deployed /\ b.countdown = a.countdown
        /\ b.requests = a.requests
    BY <2>1 DEF DialogShape, DialogFields
  <2> HIDE DEF b
  <2>3. /\ DialogShape(d) /\ d.machine = b.machine /\ d.loading = b.loading
        /\ d.validating = b.validating
        /\ d.uploading = b.uploading /\ d.success = b.success
        /\ d.deployed = b.deployed /\ d.countdown = b.countdown
        /\ d.requests = b.requests
    BY <2>2 DEF DialogShape, DialogFields
  <2>4. dialog' = d BY DEF d, b, a
  <2> HIDE DEF d
  <2>5. DialogInv(d, sent, recorded)
    BY <2>0, <2>1, <2>2, <2>3 DEF DialogHolds, DialogInv, Asked
  <2> QED BY <1>1, <2>4, <2>5 DEF DialogHolds
<1>3. ASSUME NEW n, TypeNumber(n) PROVE DialogHolds'
  <2> DEFINE d == [dialog EXCEPT !.number = n]
  <2>1. /\ DialogShape(d) /\ d.machine = dialog.machine /\ d.loading = dialog.loading
        /\ d.validating = dialog.validating
        /\ d.uploading = dialog.uploading /\ d.success = dialog.success
        /\ d.deployed = dialog.deployed /\ d.countdown = dialog.countdown
        /\ d.requests = dialog.requests
    BY DEF DialogHolds, DialogInv, DialogShape, DialogFields
  <2>2. dialog' = d BY <1>3 DEF TypeNumber, Dialog
  <2> HIDE DEF d
  <2> QED BY <1>1, <2>1, <2>2 DEF DialogHolds, DialogInv, Asked
<1> QED BY <1>2, <1>3

\* The fields of a dialog the invariant speaks of, but what is under way.
Kept == {"machine", "validating", "loading", "uploading", "success", "deployed", "countdown"}

LEMMA UploadKeeps ==
    ASSUME DialogHolds, performUpload
    PROVE  DialogHolds'
<1>1. sent' = sent /\ recorded' = recorded /\ ~dialog.uploading
  BY DEF performUpload, Footer
<1>2. CASE dialog' = [dialog EXCEPT !.error = TRUE]
  <2> DEFINE d == [dialog EXCEPT !.error = TRUE]
  <2>1. /\ DialogShape(d) /\ \A k \in Kept : d[k] = dialog[k]
        /\ d.requests = dialog.requests
    BY DEF DialogHolds, DialogInv, DialogShape, DialogFields, Kept
  <2>2. dialog' = d BY <1>2
  <2> HIDE DEF d
  <2>3. DialogInv(d, sent, recorded) BY <2>1 DEF DialogHolds, DialogInv, Asked, Kept
  <2> QED BY <1>1, <2>2, <2>3 DEF DialogHolds
<1> DEFINE q == [kind |-> "upload", f |-> dialog.content, n |-> dialog.number, id |-> started]
           e == [dialog EXCEPT !.uploading = TRUE, !.error = FALSE]
           d == Ask(e, q)
<1>3. CASE dialog' = d
  <2>1. /\ DialogShape(e) /\ \A k \in Kept \ {"uploading"} : e[k] = dialog[k]
        /\ e.requests = dialog.requests
    BY DEF DialogHolds, DialogInv, DialogShape, DialogFields, Kept
  <2> HIDE DEF e
  <2>2. /\ DialogShape(d) /\ \A k \in Kept : d[k] = e[k]
        /\ d.requests = e.requests \cup {q}
    BY <2>1, AskIs DEF DialogFields, Kept
  <2>3. q.kind = "upload" /\ q = [kind |-> q.kind, f |-> q.f, n |-> q.n, id |-> q.id] OBVIOUS
  <2> HIDE DEF d, q
  <2>4. DialogInv(d, sent, recorded)
    BY <2>1, <2>2, <2>3 DEF DialogHolds, DialogInv, Asked, Kept
  <2> QED BY <1>1, <1>3, <2>4 DEF DialogHolds
<1> QED BY <1>2, <1>3 DEF performUpload, Dialog

\* An upload fails where it was.
LEMMA UploadFailsKeeps ==
    ASSUME DialogHolds, NEW r, UploadFails(r), r.kind = "upload" \/ r.kind = "record",
           sent' = sent, recorded' = recorded
    PROVE  DialogHolds'
<1> DEFINE a == Answered(dialog, r)
           d == [a EXCEPT !.error = TRUE, !.uploading = FALSE]
<1>1. /\ DialogShape(a) /\ \A k \in Kept : a[k] = dialog[k]
      /\ a.requests = dialog.requests \ {r}
  BY AnsweredIs DEF DialogHolds, DialogInv, DialogFields, Kept
<1> HIDE DEF a
<1>2. /\ DialogShape(d) /\ \A k \in Kept \ {"uploading"} : d[k] = a[k]
      /\ d.uploading = FALSE /\ d.requests = a.requests
  BY <1>1 DEF DialogShape, DialogFields, Kept
<1>3. dialog' = d BY DEF UploadFails, Dialog, d, a
<1> HIDE DEF d
<1>4. DialogInv(d, sent, recorded)
  BY <1>1, <1>2 DEF DialogHolds, DialogInv, Asked, Kept
<1> QED BY <1>3, <1>4 DEF DialogHolds

\* The machine has the file before it is recorded.
LEMMA TransferKeeps ==
    ASSUME DialogHolds, TransferEnds
    PROVE  DialogHolds'
<1> PICK r \in Pending("upload") :
      \/ /\ sent' = sent \cup {[n |-> r.n, f |-> r.f]}
         /\ dialog' = Ask(Answered(dialog, r), [r EXCEPT !.kind = "record"])
      \/ UploadFails(r) /\ UNCHANGED sent
  BY DEF TransferEnds, Dialog
<1>1. recorded' = recorded BY DEF TransferEnds
<1>2. r \in dialog.requests /\ r.kind = "upload" BY DEF Pending
<1> DEFINE q == [r EXCEPT !.kind = "record"]
           x == [n |-> r.n, f |-> r.f]
           a == Answered(dialog, r)
           d == Ask(a, q)
<1>3. /\ DialogShape(a) /\ \A k \in Kept : a[k] = dialog[k]
      /\ a.requests = dialog.requests \ {r}
  BY AnsweredIs DEF DialogHolds, DialogInv, DialogFields, Kept
<1> HIDE DEF a
<1>4. /\ DialogShape(d) /\ \A k \in Kept : d[k] = a[k]
      /\ d.requests = a.requests \cup {q}
  BY <1>3, AskIs DEF DialogFields, Kept
<1> HIDE DEF d
<1>5. q.kind = "record" /\ q.f = r.f /\ q.n = r.n
  <2> PICK a1, a2, a3, a4 : r = [kind |-> a1, f |-> a2, n |-> a3, id |-> a4]
    BY <1>2 DEF DialogHolds, DialogInv
  <2> QED OBVIOUS
<1>6. x = [n |-> q.n, f |-> q.f] BY <1>5
<1> HIDE DEF q, x
<1>7. DialogInv(d, sent \cup {x}, recorded)
  BY <1>2, <1>3, <1>4, <1>5, <1>6 DEF DialogHolds, DialogInv, Asked, Kept
<1>8. CASE sent' = sent \cup {x} /\ dialog' = d
  BY <1>1, <1>7, <1>8 DEF DialogHolds
<1>9. CASE UploadFails(r) /\ UNCHANGED sent
  BY <1>1, <1>2, <1>9, UploadFailsKeeps
<1> QED BY <1>8, <1>9 DEF d, a, q, x

\* What is announced has been sent and recorded.
LEMMA RecordKeeps ==
    ASSUME DialogHolds, RecordEnds
    PROVE  DialogHolds'
<1> DEFINE x(r) == [n |-> r.n, f |-> r.f]
           q(r) == [kind |-> "prefetch", f |-> r.f]
<1> PICK r \in Pending("record") :
      \/ /\ recorded' = recorded \cup {x(r)}
         /\ dialog' = Ask([Answered(dialog, r) EXCEPT
                             !.success = TRUE, !.deployed = x(r),
                             !.countdown = Countdown, !.uploading = FALSE], q(r))
      \/ UploadFails(r) /\ UNCHANGED recorded
  BY DEF RecordEnds, Dialog
<1>1. sent' = sent BY DEF RecordEnds
<1>2. r \in dialog.requests /\ r.kind = "record" BY DEF Pending
<1> DEFINE a == Answered(dialog, r)
           e == [a EXCEPT !.success = TRUE, !.deployed = x(r),
                          !.countdown = Countdown, !.uploading = FALSE]
           d == Ask(e, q(r))
<1>3. /\ DialogShape(a) /\ \A k \in Kept : a[k] = dialog[k]
      /\ a.requests = dialog.requests \ {r}
  BY AnsweredIs DEF DialogHolds, DialogInv, DialogFields, Kept
<1>4. x(r) \in sent BY <1>2 DEF DialogHolds, DialogInv
<1>5. q(r).kind = "prefetch" OBVIOUS
<1> HIDE DEF a, x, q
<1>6. /\ DialogShape(e) /\ \A k \in {"machine", "validating", "loading"} : e[k] = a[k]
      /\ e.uploading = FALSE /\ e.deployed = x(r) /\ e.countdown = Countdown
      /\ e.requests = a.requests
  BY <1>3 DEF DialogShape, DialogFields
<1> HIDE DEF e
<1>7. /\ DialogShape(d) /\ \A k \in Kept : d[k] = e[k]
      /\ d.requests = e.requests \cup {q(r)}
  BY <1>6, AskIs DEF DialogFields, Kept
<1> HIDE DEF d
<1>8. DialogInv(d, sent, recorded \cup {x(r)})
  <2>1. d.countdown \in Nat /\ d.countdown > 0 /\ d.deployed \in sent \cap (recorded \cup {x(r)})
    BY <1>4, <1>6, <1>7, CardsAssumption DEF Kept
  <2> QED BY <1>2, <1>3, <1>5, <1>6, <1>7, <2>1 DEF DialogHolds, DialogInv, Asked, Kept
<1>9. CASE recorded' = recorded \cup {x(r)} /\ dialog' = d
  BY <1>1, <1>8, <1>9 DEF DialogHolds
<1>10. CASE UploadFails(r) /\ UNCHANGED recorded
  BY <1>1, <1>2, <1>10, UploadFailsKeeps
<1> QED BY <1>9, <1>10 DEF d, e, a

LEMMA PrefetchKeeps ==
    ASSUME DialogHolds, PrefetchArrives
    PROVE  DialogHolds'
<1> PICK r \in Pending("prefetch") : dialog' = Answered(dialog, r)
  BY DEF PrefetchArrives, Dialog
<1> DEFINE a == Answered(dialog, r)
<1>1. r.kind = "prefetch" BY DEF Pending
<1>2. /\ DialogShape(a) /\ \A k \in Kept : a[k] = dialog[k]
      /\ a.requests = dialog.requests \ {r}
  BY AnsweredIs DEF DialogHolds, DialogInv, DialogFields, Kept
<1>3. dialog' = a /\ sent' = sent /\ recorded' = recorded BY DEF PrefetchArrives
<1> HIDE DEF a
<1>4. DialogInv(a, sent, recorded) BY <1>1, <1>2 DEF DialogHolds, DialogInv, Asked, Kept
<1> QED BY <1>3, <1>4 DEF DialogHolds

LEMMA TickKeeps ==
    ASSUME DialogHolds, Tick
    PROVE  DialogHolds'
<1>1. sent' = sent /\ recorded' = recorded BY DEF Tick
<1>2. CASE dialog' = onClose(dialog) BY <1>1, <1>2, CloseKeeps DEF DialogHolds
<1>3. CASE dialog.countdown # 1 /\ dialog' = [dialog EXCEPT !.countdown = @ - 1]
  <2> DEFINE n == dialog.countdown - 1
             d == [dialog EXCEPT !.countdown = n]
  <2>1. n \in Nat /\ n > 0 BY <1>3 DEF Tick, DialogHolds, DialogInv
  <2>2. dialog' = d BY <1>3
  <2> HIDE DEF n
  <2>3. /\ DialogShape(d) /\ \A k \in Kept \ {"countdown"} : d[k] = dialog[k]
        /\ d.countdown = n /\ d.requests = dialog.requests
    BY DEF DialogHolds, DialogInv, DialogShape, DialogFields, Kept
  <2> HIDE DEF d
  <2>4. DialogInv(d, sent, recorded)
    BY <2>1, <2>3 DEF DialogHolds, DialogInv, Asked, Kept
  <2> QED BY <1>1, <2>2, <2>4 DEF DialogHolds
<1> QED BY <1>2, <1>3 DEF Tick, Dialog

\* Everything that happens to the card and its dialog.
LEMMA DialogStep ==
    ASSUME DialogHolds, DialogNext \/ PrefetchArrives \/ handleGoToFileManager
    PROVE  DialogHolds'
<1>1. CASE handleClose \/ handleGoToFileManager
  <2>1. dialog' = onClose(dialog) /\ sent' = sent /\ recorded' = recorded
    BY <1>1 DEF handleClose, handleGoToFileManager, Dialog
  <2> QED BY <2>1, CloseKeeps DEF DialogHolds
<1> QED BY <1>1, SelectKeeps, CheckKeeps, NumberKeeps, UploadKeeps, TransferKeeps, RecordKeeps,
           PrefetchKeeps, TickKeeps DEF DialogNext

-----------------------------------------------------------------------------
(* The screens together *)

ScreensInv ==
    /\ LinkType
    /\ screen = "page" => FileInv(page, TRUE)
    /\ screen = "pane" => PaneInv(page)
    /\ screen \notin {"page", "pane"} => page = Empty
    /\ dialog = None \/ DialogHolds
    /\ screen = "card" => DialogHolds

LEMMA EmptyIsFine == FileInv(Empty, TRUE)
<1>1. /\ Empty.machine = None /\ Empty.path = None /\ Empty.list = NoList
      /\ Empty.requests = {Request("machines", None, None, None)}
  BY DEF Empty
<1>2. \A r \in Empty.requests : r.kind # "path" BY <1>1, RequestIs
<1>3. ListShape(Empty) /\ PathDue(Empty)
  BY <1>1, <1>2 DEF ListShape, NoList, PathDue
<1> HIDE DEF Empty
<1> QED BY <1>1, <1>3, EmptyShape
        DEF FileInv, Ready, AsksMatch, RowsMatch, ListDue, Located

LEMMA PaneStarts ==
    ASSUME PaneInit
    PROVE  PaneInv(page)
<1> PICK m \in Opened :
      page = [Empty EXCEPT !.machine = m, !.pathLoading = TRUE, !.loading = FALSE,
                 !.requests = {Request("path", m, None, None), Request("badges", m, None, None)}]
  BY DEF PaneInit
<1> DEFINE q == Request("path", m, None, None)
           b == Request("badges", m, None, None)
<1>1. q.kind = "path" /\ b.kind = "badges" /\ q.m = m /\ b.m = m BY RequestIs
<1>2. page = [Empty EXCEPT !.machine = m, !.pathLoading = TRUE, !.loading = FALSE,
                 !.requests = {q, b}]
  OBVIOUS
<1> HIDE DEF q, b
<1>3. /\ Empty.list = NoList /\ Empty.selected = None /\ Empty.view = None
      /\ Empty.path = None
  BY DEF Empty
<1>4. /\ PageShape(page) /\ page.machine = m /\ page.pathLoading = TRUE
      /\ page.requests = {q, b} /\ page.list = NoList /\ page.selected = None
      /\ page.view = None /\ page.path = None
  BY <1>2, <1>3, EmptyShape DEF PageShape, Fields
<1>5. ListShape(page) BY <1>4 DEF ListShape, NoList
<1>6. m \in Machines BY OpenedAssumption
<1>7. PathDue(page) BY <1>1, <1>4, <1>6 DEF PathDue
<1>8. Waiting(page) BY <1>1, <1>4 DEF Waiting
<1> QED BY <1>4, <1>5, <1>6, <1>7, <1>8 DEF PaneInv, FileInv, Ready, AsksMatch, ListDue, Located

LEMMA DialogStarts ==
    ASSUME DialogInit
    PROVE  DialogHolds
<1> PICK m \in Cards :
      dialog = [machine |-> m, filename |-> None, content |-> None, result |-> None,
                open |-> FALSE, validating |-> FALSE, number |-> FirstNumber,
                loading |-> FALSE, uploading |-> FALSE, error |-> FALSE,
                success |-> FALSE, deployed |-> None, countdown |-> 0, requests |-> {}]
  BY DEF DialogInit
<1>1. /\ DialogShape(dialog) /\ dialog.machine = m /\ ~dialog.validating /\ ~dialog.loading
      /\ ~dialog.uploading /\ ~dialog.success /\ dialog.requests = {}
  BY DEF DialogShape, DialogFields
<1> QED BY <1>1, CardsAssumption DEF DialogHolds, DialogInv

LEMMA LinksTyped ==
    ASSUME link \in Links
    PROVE  LinkType
  BY PathsAssumption, LinksAssumption DEF LinkType

LEMMA ScreensStart ==
    ASSUME PagesInit
    PROVE  ScreensInv
<1>1. CASE screen = "page" /\ Init /\ dialog = None
  BY <1>1, EmptyIsFine, LinksTyped DEF Init, ScreensInv
<1>2. CASE screen = "pane" /\ PaneInit /\ dialog = None
  BY <1>2, PaneStarts, LinksTyped DEF PaneInit, ScreensInv
<1>3. CASE screen = "card" /\ DialogInit
  <2>1. LinkType /\ page = Empty BY <1>3 DEF DialogInit, LinkType
  <2> QED BY <1>3, <2>1, DialogStarts DEF ScreensInv
<1>4. CASE screen = "dashboard" /\ link = NoLink /\ page = Empty /\ dialog = None
  <2>1. LinkType BY <1>4 DEF LinkType, NoLink
  <2> QED BY <1>4, <2>1 DEF ScreensInv
<1> QED BY <1>1, <1>2, <1>3, <1>4 DEF PagesInit, FilesInit

\* No screen writes another address.
LEMMA PageStays == Next => link' = link
  BY DEF Next, Answers, MachinesArrive, PathArrives, ProgramsArrive, BadgesArrive,
     PreviewArrives, MetadataArrives, DetailArrives, ViewArrives, DownloadArrives,
     ValidateArrives, DeployArrives, DeploymentArrives, SelectMachine, handleItemClick,
     handleDownload, handleViewCode, handleValidate, CloseView, PickDeployment, Expire,
     Becomes, Click

LEMMA PaneStays == PaneNext => link' = link
  BY DEF PaneNext, PaneAnswers, PanePathArrives, PaneProgramsArrive, PaneBadgesArrive,
     PanePreviewArrives, PaneMetadataArrives, PaneDetailArrives, PaneViewArrives,
     PaneDownloadArrives, PaneValidateArrives, PaneDeployArrives, UploadArrives, RelistArrives,
     PaneDeploymentArrives, PaneItemClick, PaneDownload, PaneViewCode, PaneValidate,
     handleFileSelect, PaneCloseView, PanePickDeployment, Expire, PaneBecomes, PaneClick

LEMMA DialogStays == DialogNext => link' = link /\ page' = page /\ clicks' = clicks
  BY DEF DialogNext, CardFileSelect, CheckArrives, fetchNextONumber, TypeNumber,
     performUpload, TransferEnds, UploadFails, RecordEnds, Tick, handleClose, Dialog

LEMMA ScreensStep ==
    ASSUME ScreensInv, [PagesNext]_<<filesVars, gridVars>>
    PROVE  ScreensInv'
<1> USE DEF ScreensInv
<1>0. DialogHolds /\ UNCHANGED dialogVars => DialogHolds'
  BY DEF DialogHolds, dialogVars
<1>1. ASSUME screen = "page", Next, UNCHANGED <<screen, dialogVars>>
      PROVE  ScreensInv'
  <2>1. FileInv(page', TRUE) BY <1>1, PageStep
  <2>2. link' = link BY <1>1, PageStays
  <2> QED BY <1>0, <1>1, <2>1, <2>2 DEF LinkType, dialogVars
<1>2. ASSUME screen = "pane", PaneNext, UNCHANGED <<screen, dialogVars>>
      PROVE  ScreensInv'
  <2>1. PaneInv(page')
    <3>1. PaneKept /\ Waiting(page') BY <1>2, PaneStep, WaitingStep
    <3> QED BY <1>2, <3>1 DEF PaneInv, PaneKept, Moves, Relisted
  <2>2. link' = link BY <1>2, PaneStays
  <2> QED BY <1>0, <1>2, <2>1, <2>2 DEF LinkType, dialogVars
<1>3. ASSUME screen = "card", DialogNext, UNCHANGED screen
      PROVE  ScreensInv'
  <2>1. DialogHolds' BY <1>3, DialogStep
  <2>2. link' = link /\ page' = page BY <1>3, DialogStays
  <2> QED BY <1>3, <2>1, <2>2 DEF LinkType
<1>4. ASSUME screen = "card", handleGoToFileManager, screen' = "page"
      PROVE  ScreensInv'
  <2>1. DialogHolds' BY <1>4, DialogStep
  <2>2. page' = Empty /\ link' = [m |-> dialog.machine, f |-> dialog.number, p |-> None]
    BY <1>4 DEF handleGoToFileManager
  <2>3. LinkType' BY <1>4, <2>2, PathsAssumption DEF LinkType, DialogHolds, DialogInv
  <2> QED BY <1>4, <2>1, <2>2, <2>3, EmptyIsFine
<1>5. ASSUME dialog # None, PrefetchArrives, UNCHANGED screen
      PROVE  ScreensInv'
  <2>1. DialogHolds' BY <1>5, DialogStep
  <2>2. link' = link /\ page' = page BY <1>5 DEF PrefetchArrives, Dialog
  <2> QED BY <1>5, <2>1, <2>2 DEF LinkType
<1>6. CASE UNCHANGED filesVars
  <2>1. link' = link /\ page' = page /\ dialog' = dialog /\ screen' = screen /\ UNCHANGED dialogVars
    BY <1>6 DEF filesVars, vars, dialogVars
  <2> QED BY <1>0, <2>1 DEF LinkType
<1> QED BY <1>1, <1>2, <1>3, <1>4, <1>5, <1>6 DEF PagesNext, FilesNext

LEMMA ScreensHold == PagesSpec => []ScreensInv
<1>1. PagesInit => ScreensInv BY ScreensStart
<1>2. ScreensInv /\ [PagesNext]_<<filesVars, gridVars>> => ScreensInv' BY ScreensStep
<1> QED BY <1>1, <1>2, PTL DEF PagesSpec

-----------------------------------------------------------------------------
(* The file of the address *)

\* Until the user does something, the file is looked for.
LinkedInv ==
    /\ clicks \in Nat
    /\ clicks = 0 /\ link.f # None =>
         /\ screen = "page" => LinkInv(page, link.f, TRUE)
         /\ screen = "pane" => LinkInv(page, link.f, FALSE)

\* What the user does is counted.
LEMMA PageCounts ==
    ASSUME Next, clicks \in Nat
    PROVE  /\ clicks' \in Nat
           /\ clicks' = 0 => /\ clicks = 0
                             /\ page' = page \/ Answers \/ \E f \in Files : DeploymentArrives(f)
<1>1. CASE Answers \/ \E f \in Files : DeploymentArrives(f)
  <2>1. clicks' = clicks
    BY <1>1 DEF Answers, MachinesArrive, PathArrives, ProgramsArrive, BadgesArrive,
       PreviewArrives, MetadataArrives, DetailArrives, ViewArrives, DownloadArrives,
       ValidateArrives, DeployArrives, DeploymentArrives, Becomes
  <2> QED BY <1>1, <2>1
<1>2. CASE Expire BY <1>2 DEF Expire
<1>3. CASE \/ \E m \in Machines : SelectMachine(m)
           \/ \E f \in Files \cup {Dir, ".."} : handleItemClick(f)
           \/ \E f \in Files : handleDownload(f) \/ handleViewCode(f) \/ handleValidate(f)
           \/ CloseView
           \/ \E id \in {None, "older"} : PickDeployment(id)
  <2>1. clicks' = clicks + 1
    BY <1>3 DEF SelectMachine, handleItemClick, handleDownload, handleViewCode, handleValidate,
       CloseView, PickDeployment, Click
  <2> QED BY <2>1
<1> QED BY <1>1, <1>2, <1>3 DEF Next

LEMMA PaneCounts ==
    ASSUME PaneNext, clicks \in Nat
    PROVE  /\ clicks' \in Nat
           /\ clicks' = 0 =>
                /\ clicks = 0
                /\ page' = page \/ PaneAnswers \/ \E f \in Files : PaneDeploymentArrives(f)
<1>1. CASE PaneAnswers \/ \E f \in Files : PaneDeploymentArrives(f)
  <2>1. clicks' = clicks
    BY <1>1 DEF PaneAnswers, PanePathArrives, PaneProgramsArrive, PaneBadgesArrive,
       PanePreviewArrives, PaneMetadataArrives, PaneDetailArrives, PaneViewArrives,
       PaneDownloadArrives, PaneValidateArrives, PaneDeployArrives, UploadArrives, RelistArrives,
       PaneDeploymentArrives, PaneBecomes
  <2> QED BY <1>1, <2>1
<1>2. CASE Expire BY <1>2 DEF Expire
<1>3. CASE \/ \E f \in Files \cup {Dir, ".."} : PaneItemClick(f)
           \/ \E f \in Files : PaneDownload(f) \/ PaneViewCode(f) \/ PaneValidate(f)
                               \/ handleFileSelect(f)
           \/ PaneCloseView
           \/ \E id \in {None, "older"} : PanePickDeployment(id)
  <2>1. clicks' = clicks + 1
    BY <1>3 DEF PaneItemClick, PaneDownload, PaneViewCode, PaneValidate, handleFileSelect,
       PaneCloseView, PanePickDeployment, PaneClick
  <2> QED BY <2>1
<1> QED BY <1>1, <1>2, <1>3 DEF PaneNext

LEMMA EmptyLinked ==
    ASSUME NEW f, f # None
    PROVE  LinkInv(Empty, f, TRUE)
<1>1. /\ Empty.machine = None /\ Empty.path = None /\ Empty.list = NoList
      /\ Empty.requests = {Request("machines", None, None, None)}
      /\ Empty.wanted = None /\ ~Empty.loading /\ Empty.selected = None
  BY DEF Empty
<1>2. \A r \in Empty.requests : r.kind = "machines" BY <1>1, RequestIs
<1> HIDE DEF Empty
<1>3. Calm(Empty, f, TRUE) BY <1>1, <1>2, EmptyShape DEF Calm, Early
<1> QED BY <1>1, <1>3 DEF LinkInv, Listed

LEMMA PaneLinkStarts ==
    ASSUME PaneInit, link.f # None
    PROVE  LinkInv(page, link.f, FALSE)
<1> PICK m \in Opened :
      page = [Empty EXCEPT !.machine = m, !.pathLoading = TRUE, !.loading = FALSE,
                 !.requests = {Request("path", m, None, None), Request("badges", m, None, None)}]
  BY DEF PaneInit
<1> DEFINE q == Request("path", m, None, None)
           b == Request("badges", m, None, None)
<1>1. q.kind = "path" /\ b.kind = "badges" BY RequestIs
<1>2. page = [Empty EXCEPT !.machine = m, !.pathLoading = TRUE, !.loading = FALSE,
                 !.requests = {q, b}]
  OBVIOUS
<1>3. /\ Empty.list = NoList /\ Empty.selected = None /\ Empty.wanted = None
      /\ Empty.path = None
  BY DEF Empty
<1>4. q = Request("path", m, None, None) OBVIOUS
<1> HIDE DEF q, b
<1>5. /\ PageShape(page) /\ page.machine = m /\ page.pathLoading = TRUE /\ page.loading = FALSE
      /\ page.requests = {q, b} /\ page.list = NoList /\ page.selected = None
      /\ page.wanted = None /\ page.path = None
  BY <1>2, <1>3, EmptyShape DEF PageShape, Fields
<1>6. m \in Machines /\ m # None BY OpenedAssumption, PathsAssumption
<1>7. Calm(page, link.f, FALSE)
  <2>1. \A r \in page.requests : r = q \/ r.kind = "badges" BY <1>1, <1>5
  <2> QED BY <1>1, <1>4, <1>5, <1>6, <2>1 DEF Calm, Early
<1> QED BY <1>5, <1>7 DEF LinkInv, Listed

LEMMA LinkedStarts ==
    ASSUME PagesInit
    PROVE  LinkedInv
<1>1. clicks = 0 BY DEF PagesInit, FilesInit, Init, PaneInit, DialogInit
<1>2. CASE screen = "page" /\ Init
  <2>1. page = Empty BY <1>2 DEF Init
  <2> QED BY <1>1, <1>2, <2>1, EmptyLinked DEF LinkedInv
<1>3. CASE screen = "pane" /\ PaneInit
  BY <1>1, <1>3, PaneLinkStarts DEF LinkedInv
<1>4. CASE screen \notin {"page", "pane"}
  BY <1>1, <1>4 DEF LinkedInv
<1> QED BY <1>2, <1>3, <1>4 DEF PagesInit, FilesInit

LEMMA LinkedStep ==
    ASSUME ScreensInv, LinkedInv, [PagesNext]_<<filesVars, gridVars>>
    PROVE  LinkedInv'
<1>1. ASSUME screen = "page", Next, screen' = screen
      PROVE  LinkedInv'
  <2>1. link' = link BY <1>1, PageStays
  <2>2. clicks' \in Nat BY <1>1, PageCounts DEF LinkedInv
  <2>3. ASSUME clicks' = 0, link.f # None PROVE LinkInv(page', link.f, TRUE)
    <3>1. LinkInv(page, link.f, TRUE) BY <1>1, <2>3, PageCounts DEF LinkedInv
    <3>2. page' = page \/ Answers \/ \E f \in Files : DeploymentArrives(f)
      BY <1>1, <2>3, PageCounts DEF LinkedInv
    <3>3. ASSUME Answers \/ \E f \in Files : DeploymentArrives(f) PROVE LinkInv(page', link.f, TRUE)
      BY <1>1, <3>1, <3>3, PageAnswers DEF ScreensInv, PageKept, PageLinked
    <3> QED BY <3>1, <3>2, <3>3
  <2> QED BY <1>1, <2>1, <2>2, <2>3 DEF LinkedInv
<1>2. ASSUME screen = "pane", PaneNext, screen' = screen
      PROVE  LinkedInv'
  <2>1. link' = link BY <1>2, PaneStays
  <2>2. clicks' \in Nat BY <1>2, PaneCounts DEF LinkedInv
  <2>3. ASSUME clicks' = 0, link.f # None PROVE LinkInv(page', link.f, FALSE)
    <3>1. LinkInv(page, link.f, FALSE) BY <1>2, <2>3, PaneCounts DEF LinkedInv
    <3>2. page' = page \/ PaneAnswers \/ \E f \in Files : PaneDeploymentArrives(f)
      BY <1>2, <2>3, PaneCounts DEF LinkedInv
    <3>3. ASSUME PaneAnswers \/ \E f \in Files : PaneDeploymentArrives(f)
          PROVE  LinkInv(page', link.f, FALSE)
      BY <1>2, <3>1, <3>3, PaneAnswersKeep DEF ScreensInv, PaneLinked
    <3> QED BY <3>1, <3>2, <3>3
  <2> QED BY <1>2, <2>1, <2>2, <2>3 DEF LinkedInv
<1>3. ASSUME screen = "card", DialogNext, screen' = screen
      PROVE  LinkedInv'
  <2>1. clicks' = clicks BY <1>3, DialogStays
  <2> QED BY <1>3, <2>1 DEF LinkedInv
<1>4. ASSUME screen = "card", handleGoToFileManager, screen' = "page"
      PROVE  LinkedInv'
  <2>1. page' = Empty /\ clicks' = MaxClicks BY <1>4 DEF handleGoToFileManager
  <2>2. link'.f # None => LinkInv(page', link'.f, TRUE) BY <2>1, EmptyLinked
  <2> QED BY <1>4, <2>1, <2>2, ClicksAssumption DEF LinkedInv
<1>5. ASSUME PrefetchArrives, screen' = screen
      PROVE  LinkedInv'
  <2>1. link' = link /\ page' = page /\ clicks' = clicks BY <1>5 DEF PrefetchArrives, Dialog
  <2> QED BY <1>5, <2>1 DEF LinkedInv
<1>6. CASE UNCHANGED filesVars
  <2>1. link' = link /\ page' = page /\ clicks' = clicks /\ screen' = screen
    BY <1>6 DEF filesVars, vars
  <2> QED BY <2>1 DEF LinkedInv
<1> QED BY <1>1, <1>2, <1>3, <1>4, <1>5, <1>6 DEF PagesNext, FilesNext

-----------------------------------------------------------------------------
(* What is shown *)

\* The rows and the selected file of the page are of the machine and the
\* directory it names once that is known (FileBrowser.tsx), for every tree of
\* files, every address and every order of answers.
THEOREM ListMatchesHolds == PagesSpec => []ListMatches
<1>1. ScreensInv => ListMatches
  BY DEF ScreensInv, ListMatches, FileInv, RowsMatch, Located, HereOf, Here
<1> QED BY <1>1, ScreensHold, PTL

\* A file screen that is loading has asked for what it waits for and has not
\* cancelled it, and one that is not shows its directory or an error
\* (FileBrowser.tsx, FileManagerPane.tsx).
THEOREM AnswerIsDueHolds == PagesSpec => []AnswerIsDue
<1>1. ASSUME ScreensInv PROVE AnswerIsDue
  <2>1. CASE screen = "page"
    <3>1. PathDue(page) /\ ListDue(page, TRUE) BY <1>1, <2>1 DEF ScreensInv, FileInv, Ready
    <3> QED BY <3>1 DEF AnswerIsDue, Answer, PathDue, ListDue, HereOf, Here
  <2>2. CASE screen = "pane"
    <3>1. PathDue(page) /\ ListDue(page, FALSE) BY <1>1, <2>2 DEF ScreensInv, PaneInv, FileInv, Ready
    <3> QED BY <2>2, <3>1 DEF AnswerIsDue, Answer, PathDue, ListDue, HereOf, Here
  <2>3. CASE screen \notin {"page", "pane"}
    <3>1. page.machine = None BY <1>1, <2>3 DEF ScreensInv, Empty
    <3> QED BY <3>1 DEF AnswerIsDue
  <2> QED BY <2>1, <2>2, <2>3
<1> QED BY <1>1, ScreensHold, PTL

\* In the pane another directory's rows are never shown but for the list that
\* an upload asks for (FileManagerPane.tsx), for every order of answers.
THEOREM PaneListMatchesHolds == PagesSpec => PaneListMatches
<1> DEFINE Step == screen = "pane" /\ page'.list.of # page.list.of =>
                     \/ page'.list.of \in {Here', NoList.of}
                     \/ \E r \in Answer("relist") : page'.list.of = <<r.m, r.p>>
<1>1. ASSUME ScreensInv, PagesNext PROVE Step
  <2> SUFFICES ASSUME screen = "pane", page'.list.of # page.list.of
               PROVE  \/ page'.list.of \in {Here', NoList.of}
                      \/ \E r \in Answer("relist") : page'.list.of = <<r.m, r.p>>
    OBVIOUS
  <2>1. PaneNext BY <1>1 DEF PagesNext, FilesNext, PrefetchArrives, Dialog, filesVars, vars
  <2>2. PaneKept BY <1>1, <2>1, PaneStep DEF ScreensInv
  <2> QED BY <2>2 DEF PaneKept, Moves, Relisted, HereOf, Here
<1>2. ASSUME ScreensInv, [PagesNext]_<<filesVars, gridVars>> PROVE [Step]_filesVars
  BY <1>1, <1>2
<1>3. PagesSpec => [][Step]_filesVars BY <1>2, ScreensHold, PTL DEF PagesSpec
<1> QED BY <1>3 DEF PaneListMatches

\* What the upload dialog waits for is under way, and the success it announces
\* is of a file that was sent and recorded (UploadConfirmationModal.tsx),
\* however often the dialog is closed and opened before the answers come.
THEOREM DialogHonestHolds == PagesSpec => []DialogHonest
<1>1. ScreensInv => DialogHonest
  BY DEF ScreensInv, DialogHonest, DialogHolds, DialogInv, Asked, Pending
<1> QED BY <1>1, ScreensHold, PTL

\* A file that the address asks for ends up selected if the machine has it and
\* the user leaves the screen alone (FileBrowser.tsx, FileManagerPane.tsx), for
\* every tree of files and whatever is stored: whichever of the machines, the
\* path and the list comes late or fails.
THEOREM LinkedFileSelectedHolds == PagesSpec => []LinkedFileSelected
<1>1. PagesInit => LinkedInv BY LinkedStarts
<1>2. ScreensInv /\ LinkedInv /\ [PagesNext]_<<filesVars, gridVars>> => LinkedInv'
  BY LinkedStep
<1>3. ASSUME ScreensInv, LinkedInv PROVE LinkedFileSelected
  <2>1. ASSUME clicks = 0, link.f # None, link.f \in Listed(page)
        PROVE  page.selected # None /\ page.selected.f = link.f
    <3>1. CASE screen = "page"
      BY <1>3, <2>1, <3>1 DEF LinkedInv, LinkInv, Calm
    <3>2. CASE screen = "pane"
      BY <1>3, <2>1, <3>2 DEF LinkedInv, LinkInv, Calm
    <3>3. CASE screen \notin {"page", "pane"}
      <4>1. page.list = NoList BY <1>3, <3>3 DEF ScreensInv, Empty
      <4> QED BY <2>1, <4>1 DEF Listed
    <3> QED BY <3>1, <3>2, <3>3
  <2> QED BY <2>1 DEF LinkedFileSelected
<1> QED BY <1>1, <1>2, <1>3, ScreensHold, PTL DEF PagesSpec

-----------------------------------------------------------------------------
(* The dashboard *)

\* The fields of the dashboard, and of a card.
UiFields == {"there", "expanded", "editing", "collapse", "adding", "addSaving", "target", "asked",
             "header", "layout", "at", "shown", "cards", "calls"}
CardFields == {"form", "base", "success", "saving", "testing", "dialog", "previews", "closing"}

UiShape(u) == u = [k \in UiFields |-> u[k]]
CardsShape(cs) == cs = [a \in DOMAIN cs |-> [k \in CardFields |-> cs[a][k]]]
CallShape(c) ==
    c = [k \in DOMAIN c |-> c[k]] /\ {"kind", "a", "alive"} \subseteq DOMAIN c /\ c.alive \in BOOLEAN

UiParts(u) ==
    /\ UiShape(u) /\ CardsShape(u.cards) /\ \A c \in u.calls : CallShape(c)
    /\ DOMAIN u.shown \subseteq Grid!Assets

\* What waits has its request under way.
CardWaits(u, a) ==
    /\ u.cards[a].saving => \E c \in u.calls : c.kind = "put" /\ c.a = a /\ c.alive
    /\ u.cards[a].testing => \E c \in u.calls : c.kind = "test" /\ c.a = a

AddWaits(u) ==
    /\ u.addSaving \in BOOLEAN
    /\ u.addSaving => u.adding # None /\ \E c \in u.calls : c.kind = "post" /\ c.alive

Waits(u) == AddWaits(u) /\ \A a \in DOMAIN u.cards : CardWaits(u, a)

\* A preview closes, or the pointer is there.
Closes(u) ==
    \A a \in DOMAIN u.cards \cap Compressors, r \in GridRows :
      /\ r \in u.cards[a].previews =>
           r \in u.cards[a].closing \/ \E part \in {"row", "preview"} : u.at = Grid!Place(a, r, part)
      /\ r \in u.cards[a].closing => u.at # Grid!Place(a, r, "preview")

\* The pointer is on a row that the card has.
OnRow(u) == u.at # None => u.at.r \in DOMAIN Grid!RowsOf(u.at.a)

\* What the header does not name is about to be mounted.
HeaderDue(old, u) ==
    u.expanded # None =>
      /\ u.there
      /\ \/ u.header = u.expanded
         \/ u.expanded \in DOMAIN u.shown /\ (old.expanded = None \/ u.expanded \notin DOMAIN old.cards)

\* What a step makes of the dashboard old before it is rendered.
Pre(old, u) ==
    /\ UiParts(u) /\ Waits(u) /\ Closes(u) /\ OnRow(u)
    /\ DOMAIN u.cards = DOMAIN old.cards
    /\ HeaderDue(old, u)
    /\ u.at # None => u.at.a \in DOMAIN u.cards /\ old.expanded = None

Good(u) ==
    /\ UiParts(u) /\ Waits(u) /\ Closes(u) /\ OnRow(u)
    /\ DOMAIN u.cards = Grid!Mounted(u)
    /\ u.expanded # None => u.there /\ u.header = u.expanded
    /\ u.adding # None => Grid!AddShown(u)
    /\ u.at # None => u.at.a \in DOMAIN u.cards /\ u.expanded = None

GridInv == Good(ui) /\ DOMAIN polled \subseteq Grid!Assets

-----------------------------------------------------------------------------
(* Rendering: what is mounted, and what stays *)

Stays(old, u) == {a \in Grid!Mounted(u) \cap DOMAIN old.cards : (old.expanded = None) = (u.expanded = None)}

LEMMA MountIs ==
    ASSUME NEW old, NEW u, UiShape(u)
    PROVE  /\ UiShape(Grid!Mount(old, u))
           /\ \A k \in UiFields \ {"cards", "calls", "header", "at", "adding", "addSaving"} :
                Grid!Mount(old, u)[k] = u[k]
           /\ Grid!Mount(old, u).cards =
                [a \in Grid!Mounted(u) |-> IF a \in Stays(old, u) THEN u.cards[a] ELSE Grid!Fresh(u, a)]
           /\ Grid!Mount(old, u).header =
                IF u.expanded \in Grid!Mounted(u) \ Stays(old, u) THEN u.expanded ELSE u.header
           /\ Grid!Mount(old, u).at =
                IF u.at # None /\ (u.at.a \notin Stays(old, u) \/ u.expanded # None) THEN None ELSE u.at
           /\ Grid!Mount(old, u).adding = IF Grid!AddShown(u) THEN u.adding ELSE None
           /\ Grid!Mount(old, u).addSaving = (u.addSaving /\ Grid!AddShown(u))
<1> DEFINE w == Grid!Mount(old, u)
<1>1. u = [k \in UiFields |-> u[k]] BY DEF UiShape
<1>2. UiShape(w) BY <1>1 DEF Grid!Mount, UiShape
<1>3. \A k \in UiFields \ {"cards", "calls", "header", "at", "adding", "addSaving"} : w[k] = u[k]
  BY <1>1 DEF Grid!Mount
<1>4. /\ w.cards = [a \in Grid!Mounted(u) |-> IF a \in Stays(old, u) THEN u.cards[a] ELSE Grid!Fresh(u, a)]
      /\ w.header = IF u.expanded \in Grid!Mounted(u) \ Stays(old, u) THEN u.expanded ELSE u.header
  BY <1>1 DEF Grid!Mount, UiFields, Stays
<1>5. /\ w.at = IF u.at # None /\ (u.at.a \notin Stays(old, u) \/ u.expanded # None) THEN None ELSE u.at
      /\ w.adding = IF Grid!AddShown(u) THEN u.adding ELSE None
      /\ w.addSaving = (u.addSaving /\ Grid!AddShown(u))
  BY <1>1 DEF Grid!Mount, UiFields, Stays
<1> QED BY <1>2, <1>3, <1>4, <1>5

LEMMA MountCalls ==
    ASSUME NEW old, NEW u, UiShape(u), \A c \in u.calls : CallShape(c)
    PROVE  /\ \A c \in Grid!Mount(old, u).calls : CallShape(c)
           /\ \A c \in u.calls :
                c.kind # "config" /\ (c.kind = "post" \/ c.a \in Stays(old, u)) =>
                  \E d \in Grid!Mount(old, u).calls :
                    /\ d.kind = c.kind /\ d.a = c.a
                    /\ d.alive = (c.alive /\ (c.kind = "post" => Grid!AddShown(u) /\ u.adding # None))
<1> DEFINE alive(c) == IF c.kind = "post" THEN Grid!AddShown(u) /\ u.adding # None ELSE c.a \in Stays(old, u)
           kept == {c \in u.calls : c.kind \in Grid!Local => c.a \in Stays(old, u)}
           after(c) == [c EXCEPT !.alive = @ /\ alive(c)]
           asked == {[kind |-> "config", a |-> a, alive |-> TRUE] :
                       a \in (Grid!Mounted(u) \ Stays(old, u)) \cap Cnc}
<1>1. Grid!Mount(old, u).calls = {after(c) : c \in kept} \cup asked
  BY DEF Grid!Mount, UiShape, UiFields, Stays
<1>2. ASSUME NEW c \in u.calls
      PROVE  /\ CallShape(after(c)) /\ after(c).kind = c.kind /\ after(c).a = c.a
             /\ after(c).alive = (c.alive /\ alive(c))
  <2>1. CallShape(c) OBVIOUS
  <2>2. alive(c) \in BOOLEAN
    <3>1. CASE c.kind = "post" BY <3>1 DEF Grid!AddShown
    <3>2. CASE c.kind # "post" BY <3>2
    <3> QED BY <3>1, <3>2
  <2> DEFINE x == c.alive /\ alive(c)
  <2>3. x \in BOOLEAN OBVIOUS
  <2>4. after(c) = [c EXCEPT !["alive"] = x] OBVIOUS
  <2> HIDE DEF after, x, alive
  <2>5. /\ after(c) = [k \in DOMAIN c |-> IF k = "alive" THEN x ELSE c[k]]
        /\ DOMAIN after(c) = DOMAIN c
    BY <2>1, <2>4 DEF CallShape
  <2>6. after(c).kind = c.kind /\ after(c).a = c.a /\ after(c).alive = x
    BY <2>1, <2>5 DEF CallShape
  <2>7. CallShape(after(c)) BY <2>1, <2>3, <2>5, <2>6 DEF CallShape
  <2> QED BY <2>6, <2>7 DEF x
<1>3. \A c \in asked : CallShape(c)
  <2> SUFFICES ASSUME NEW a PROVE CallShape([kind |-> "config", a |-> a, alive |-> TRUE])
    OBVIOUS
  <2> DEFINE c == [kind |-> "config", a |-> a, alive |-> TRUE]
  <2>1. DOMAIN c = {"kind", "a", "alive"} /\ c.alive = TRUE OBVIOUS
  <2>2. c = [k \in DOMAIN c |-> c[k]] OBVIOUS
  <2> QED BY <2>1, <2>2 DEF CallShape
<1> HIDE DEF after, asked
<1>4. \A c \in Grid!Mount(old, u).calls : CallShape(c)
  BY <1>1, <1>2, <1>3
<1>5. ASSUME NEW c \in u.calls, c.kind # "config", c.kind = "post" \/ c.a \in Stays(old, u)
      PROVE  \E d \in Grid!Mount(old, u).calls :
                    /\ d.kind = c.kind /\ d.a = c.a
                    /\ d.alive = (c.alive /\ (c.kind = "post" => Grid!AddShown(u) /\ u.adding # None))
  <2>1. c \in kept BY <1>5 DEF Grid!Local
  <2>2. after(c) \in Grid!Mount(old, u).calls BY <1>1, <2>1
  <2>3. alive(c) = (c.kind = "post" => Grid!AddShown(u) /\ u.adding # None) BY <1>5
  <2> HIDE DEF alive
  <2> QED BY <1>2, <2>2, <2>3
<1> QED BY <1>4, <1>5

LEMMA StaysMounted == ASSUME NEW old, NEW u PROVE Stays(old, u) \subseteq Grid!Mounted(u) \cap DOMAIN old.cards
  BY DEF Stays

\* A rendering completes what a step has begun.
LEMMA MountCompletes ==
    ASSUME NEW old, NEW u, Pre(old, u)
    PROVE  Good(Grid!Mount(old, u))
<1> DEFINE v == Grid!Mount(old, u)
<1>0. UiParts(u) /\ UiShape(u) /\ Waits(u) /\ Closes(u) BY DEF Pre, UiParts
<1>1. /\ UiShape(v) /\ \A k \in UiFields \ {"cards", "calls", "header", "at", "adding", "addSaving"} : v[k] = u[k]
      /\ v.cards = [a \in Grid!Mounted(u) |-> IF a \in Stays(old, u) THEN u.cards[a] ELSE Grid!Fresh(u, a)]
      /\ v.header = IF u.expanded \in Grid!Mounted(u) \ Stays(old, u) THEN u.expanded ELSE u.header
      /\ v.at = IF u.at # None /\ (u.at.a \notin Stays(old, u) \/ u.expanded # None) THEN None ELSE u.at
      /\ v.adding = IF Grid!AddShown(u) THEN u.adding ELSE None
      /\ v.addSaving = (u.addSaving /\ Grid!AddShown(u))
  BY <1>0, MountIs
<1>2. /\ \A c \in v.calls : CallShape(c)
      /\ \A c \in u.calls :
           c.kind # "config" /\ (c.kind = "post" \/ c.a \in Stays(old, u)) =>
             \E d \in v.calls :
               /\ d.kind = c.kind /\ d.a = c.a
               /\ d.alive = (c.alive /\ (c.kind = "post" => Grid!AddShown(u) /\ u.adding # None))
  BY <1>0, MountCalls DEF UiParts
<1> HIDE DEF v
<1>3. /\ v.there = u.there /\ v.expanded = u.expanded /\ v.editing = u.editing /\ v.shown = u.shown
      /\ Grid!Mounted(v) = Grid!Mounted(u) /\ Grid!AddShown(v) = Grid!AddShown(u)
  BY <1>1 DEF UiFields, Grid!Mounted, Grid!AddShown
<1>4. /\ DOMAIN v.cards = Grid!Mounted(u)
      /\ \A a \in Stays(old, u) : a \in DOMAIN v.cards /\ a \in DOMAIN u.cards /\ v.cards[a] = u.cards[a]
      /\ \A a \in DOMAIN v.cards \ Stays(old, u) : v.cards[a] = Grid!Fresh(u, a)
  BY <1>1, StaysMounted DEF Pre
<1>5. CardsShape(v.cards)
  <2>1. \A a \in DOMAIN v.cards : v.cards[a] = [k \in CardFields |-> v.cards[a][k]]
    <3>1. \A a \in DOMAIN u.cards : u.cards[a] = [k \in CardFields |-> u.cards[a][k]]
      BY <1>0 DEF UiParts, CardsShape
    <3>2. \A a : Grid!Fresh(u, a) = [k \in CardFields |-> Grid!Fresh(u, a)[k]]
      BY DEF Grid!Fresh, CardFields
    <3> QED BY <1>4, <3>1, <3>2
  <2>2. v.cards = [a \in DOMAIN v.cards |-> v.cards[a]] BY <1>1
  <2> QED BY <2>1, <2>2 DEF CardsShape
<1>6. UiParts(v)
  BY <1>0, <1>1, <1>2, <1>3, <1>5 DEF UiParts
<1>7. AddWaits(v)
  <2>1. v.addSaving \in BOOLEAN BY <1>1
  <2>2. ASSUME v.addSaving PROVE v.adding # None /\ \E c \in v.calls : c.kind = "post" /\ c.alive
    <3>1. u.addSaving /\ Grid!AddShown(u) BY <1>1, <2>2
    <3>2. PICK c \in u.calls : c.kind = "post" /\ c.alive BY <1>0, <3>1 DEF Waits, AddWaits
    <3>3. u.adding # None BY <1>0, <3>1 DEF Waits, AddWaits
    <3>4. PICK d \in v.calls :
            /\ d.kind = c.kind /\ d.a = c.a
            /\ d.alive = (c.alive /\ (c.kind = "post" => Grid!AddShown(u) /\ u.adding # None))
      BY <1>2, <3>2
    <3> QED BY <1>1, <3>1, <3>2, <3>3, <3>4
  <2> QED BY <2>1, <2>2 DEF AddWaits
<1>8. ASSUME NEW a \in DOMAIN v.cards PROVE CardWaits(v, a)
  <2>1. CASE a \in Stays(old, u)
    <3>1. a \in DOMAIN u.cards /\ v.cards[a] = u.cards[a] BY <1>4, <2>1
    <3>2. CardWaits(u, a) BY <1>0, <3>1 DEF Waits
    <3>3. ASSUME v.cards[a].saving PROVE \E c \in v.calls : c.kind = "put" /\ c.a = a /\ c.alive
      <4>1. PICK c \in u.calls : c.kind = "put" /\ c.a = a /\ c.alive BY <3>1, <3>2, <3>3 DEF CardWaits
      <4> QED BY <1>2, <2>1, <4>1
    <3>4. ASSUME v.cards[a].testing PROVE \E c \in v.calls : c.kind = "test" /\ c.a = a
      <4>1. PICK c \in u.calls : c.kind = "test" /\ c.a = a BY <3>1, <3>2, <3>4 DEF CardWaits
      <4> QED BY <1>2, <2>1, <4>1
    <3> QED BY <3>3, <3>4 DEF CardWaits
  <2>2. CASE a \notin Stays(old, u)
    <3>0. v.cards[a] = Grid!Fresh(u, a) BY <1>4, <2>2
    <3>1. v.cards[a].saving = FALSE /\ v.cards[a].testing = FALSE BY <3>0 DEF Grid!Fresh
    <3> QED BY <3>1 DEF CardWaits
  <2> QED BY <2>1, <2>2
<1>9. ASSUME u.at # None, u.at.a \in Stays(old, u) PROVE v.at = u.at /\ u.expanded = None
  <2>1. old.expanded = None BY <1>9 DEF Pre
  <2>2. u.expanded = None BY <1>9, <2>1 DEF Stays
  <2> QED BY <1>1, <1>9, <2>2
<1>10. Closes(v)
  <2> SUFFICES ASSUME NEW a \in DOMAIN v.cards \cap Compressors, NEW r \in GridRows
               PROVE  /\ r \in v.cards[a].previews =>
                           \/ r \in v.cards[a].closing
                           \/ \E part \in {"row", "preview"} : v.at = Grid!Place(a, r, part)
                      /\ r \in v.cards[a].closing => v.at # Grid!Place(a, r, "preview")
    BY DEF Closes
  <2>0. \A part : Grid!Place(a, r, part).a = a BY DEF Grid!Place
  <2>1. CASE a \in Stays(old, u)
    <3>1. a \in DOMAIN u.cards /\ v.cards[a] = u.cards[a] BY <1>4, <2>1
    <3>2. /\ r \in u.cards[a].previews =>
               \/ r \in u.cards[a].closing
               \/ \E part \in {"row", "preview"} : u.at = Grid!Place(a, r, part)
          /\ r \in u.cards[a].closing => u.at # Grid!Place(a, r, "preview")
      BY <1>0, <3>1 DEF Closes
    <3>3. ASSUME NEW part, u.at = Grid!Place(a, r, part) PROVE v.at = u.at
      <4>1. u.at # None \/ v.at = u.at BY <1>1
      <4> QED BY <1>9, <2>0, <2>1, <3>3, <4>1
    <3>4. v.at \in {None, u.at} BY <1>1
    <3>5. v.at = Grid!Place(a, r, "preview") => u.at = Grid!Place(a, r, "preview")
      BY <3>4, AssetsAssumption DEF Grid!Place
    <3> QED BY <3>1, <3>2, <3>3, <3>5
  <2>2. CASE a \notin Stays(old, u)
    <3>0. v.cards[a] = Grid!Fresh(u, a) BY <1>4, <2>2
    <3>1. v.cards[a].previews = {} /\ v.cards[a].closing = {} BY <3>0 DEF Grid!Fresh
    <3> QED BY <3>1
  <2> QED BY <2>1, <2>2
<1>14. OnRow(v) BY <1>1 DEF Pre, OnRow
<1>11. ASSUME v.expanded # None PROVE v.there /\ v.header = v.expanded
  <2>1. u.expanded # None /\ u.there BY <1>3, <1>11 DEF Pre, HeaderDue
  <2>2. CASE u.header = u.expanded BY <1>1, <1>3, <2>1, <2>2
  <2>3. CASE u.expanded \in DOMAIN u.shown /\ (old.expanded = None \/ u.expanded \notin DOMAIN old.cards)
    <3>1. u.expanded \in Grid!Mounted(u) BY <2>1, <2>3 DEF Grid!Mounted
    <3>2. u.expanded \notin Stays(old, u) BY <2>1, <2>3 DEF Stays
    <3> QED BY <1>1, <1>3, <2>1, <3>1, <3>2
  <2> QED BY <2>1, <2>2, <2>3 DEF Pre, HeaderDue
<1>12. v.adding # None => Grid!AddShown(v) BY <1>1, <1>3
<1>13. v.at # None => v.at.a \in DOMAIN v.cards /\ v.expanded = None
  <2> SUFFICES ASSUME v.at # None PROVE v.at.a \in DOMAIN v.cards /\ v.expanded = None
    OBVIOUS
  <2>1. v.at = u.at /\ u.at.a \in Stays(old, u) /\ u.expanded = None BY <1>1
  <2> QED BY <1>3, <1>4, <2>1
<1> QED BY <1>3, <1>4, <1>6, <1>7, <1>8, <1>10, <1>11, <1>12, <1>13, <1>14 DEF Good, Waits, v

-----------------------------------------------------------------------------
(* What collapses, and the rendering of it *)

Promised == {"saving", "testing", "previews", "closing"}

Awaited(c) == c.kind = "test" \/ (c.kind \in {"put", "post"} /\ c.alive)

\* w takes nothing from v that is waited for: at most it collapses what is expanded.
Tame(v, w) ==
    /\ UiParts(w)
    /\ DOMAIN w.cards = DOMAIN v.cards
    /\ \A a \in DOMAIN v.cards : \A k \in Promised : w.cards[a][k] = v.cards[a][k]
    /\ \A c \in v.calls : Awaited(c) => c \in w.calls
    /\ \A k \in {"at", "adding", "addSaving", "shown", "there"} : w[k] = v[k]
    /\ (w.expanded = v.expanded /\ w.header = v.header) \/ w.expanded = None

LEMMA TameSelf == ASSUME NEW v, UiParts(v) PROVE Tame(v, v)
  BY DEF Tame

LEMMA TameOn ==
    ASSUME NEW u, NEW v, NEW w, Tame(u, v), Tame(v, w)
    PROVE  Tame(u, w)
  BY DEF Tame

LEMMA TamePre ==
    ASSUME NEW old, NEW v, NEW w, Pre(old, v), Tame(v, w)
    PROVE  Pre(old, w)
<1>1. DOMAIN w.cards = DOMAIN v.cards /\ w.at = v.at /\ w.adding = v.adding /\ w.addSaving = v.addSaving
  BY DEF Tame
<1>2. \A c \in v.calls : Awaited(c) => c \in w.calls
  BY DEF Tame
<1>3. ASSUME NEW a \in DOMAIN w.cards
      PROVE  /\ a \in DOMAIN v.cards
             /\ w.cards[a].saving = v.cards[a].saving /\ w.cards[a].testing = v.cards[a].testing
             /\ w.cards[a].previews = v.cards[a].previews /\ w.cards[a].closing = v.cards[a].closing
  BY <1>1 DEF Tame, Promised
<1>4. AddWaits(w)
  <2>1. AddWaits(v) BY DEF Pre, Waits
  <2>2. ASSUME NEW c \in v.calls, c.kind = "post", c.alive PROVE c \in w.calls
    BY <1>2, <2>2 DEF Awaited
  <2> QED BY <1>1, <2>1, <2>2 DEF AddWaits
<1>5. ASSUME NEW a \in DOMAIN w.cards PROVE CardWaits(w, a)
  <2>1. CardWaits(v, a) BY <1>3 DEF Pre, Waits
  <2>2. ASSUME NEW c \in v.calls, c.kind = "test" \/ (c.kind = "put" /\ c.alive) PROVE c \in w.calls
    BY <1>2, <2>2 DEF Awaited
  <2> QED BY <1>3, <2>1, <2>2 DEF CardWaits
<1>6. Closes(w) /\ OnRow(w) BY <1>1, <1>3 DEF Closes, OnRow, Pre
<1>7. HeaderDue(old, w) BY DEF Pre, HeaderDue, Tame
<1> QED BY <1>1, <1>4, <1>5, <1>6, <1>7 DEF Pre, Waits, Tame

LEMMA GoodPre ==
    ASSUME NEW v, Good(v)
    PROVE  Pre(v, v)
  BY DEF Good, Pre, HeaderDue

-----------------------------------------------------------------------------
(* What the steps of the dashboard make of it *)

CardWith(u, a, k, x) ==
    [u EXCEPT !.cards = [b \in DOMAIN u.cards |->
        [j \in CardFields |-> IF b = a /\ j = k THEN x ELSE u.cards[b][j]]]]

LEMMA CardWithIs ==
    ASSUME NEW u, UiParts(u), NEW a, NEW x
    PROVE  /\ [u EXCEPT !.cards[a].form = x] = CardWith(u, a, "form", x)
           /\ [u EXCEPT !.cards[a].base = x] = CardWith(u, a, "base", x)
           /\ [u EXCEPT !.cards[a].success = x] = CardWith(u, a, "success", x)
           /\ [u EXCEPT !.cards[a].dialog = x] = CardWith(u, a, "dialog", x)
           /\ [u EXCEPT !.cards[a].saving = x] = CardWith(u, a, "saving", x)
           /\ [u EXCEPT !.cards[a].testing = x] = CardWith(u, a, "testing", x)
           /\ [u EXCEPT !.cards[a].previews = x] = CardWith(u, a, "previews", x)
           /\ [u EXCEPT !.cards[a].closing = x] = CardWith(u, a, "closing", x)
<1> DEFINE cs == u.cards
<1>1. CardsShape(cs) BY DEF UiParts
<1>2. ASSUME NEW k \in CardFields
      PROVE  [cs EXCEPT ![a] = [@ EXCEPT ![k] = x]]
               = [b \in DOMAIN cs |-> [j \in CardFields |-> IF b = a /\ j = k THEN x ELSE cs[b][j]]]
  <2> HIDE DEF cs
  <2>1. cs = [b \in DOMAIN cs |-> [j \in CardFields |-> cs[b][j]]] BY <1>1 DEF CardsShape
  <2>2. ASSUME NEW b \in DOMAIN cs
        PROVE  [cs EXCEPT ![a] = [@ EXCEPT ![k] = x]][b] = [j \in CardFields |-> IF b = a /\ j = k THEN x ELSE cs[b][j]]
    <3>1. cs[b] = [j \in CardFields |-> cs[b][j]] BY <2>1
    <3>2. CASE b = a BY <1>2, <3>1, <3>2
    <3>3. CASE b # a BY <3>1, <3>3
    <3> QED BY <3>2, <3>3
  <2>3. [cs EXCEPT ![a] = [@ EXCEPT ![k] = x]] = [b \in DOMAIN cs |-> [cs EXCEPT ![a] = [@ EXCEPT ![k] = x]][b]]
    BY <2>1
  <2> QED BY <2>2, <2>3
<1> QED BY <1>2 DEF CardWith, CardFields

\* w is u but for a field of one card.
CardSet(u, w, a, k, x) ==
    /\ UiParts(w) /\ \A f \in UiFields \ {"cards"} : w[f] = u[f]
    /\ DOMAIN w.cards = DOMAIN u.cards
    /\ \A b \in DOMAIN u.cards, j \in CardFields :
         w.cards[b][j] = IF b = a /\ j = k THEN x ELSE u.cards[b][j]

LEMMA CardWithSets ==
    ASSUME NEW u, UiParts(u), NEW a, NEW k \in CardFields, NEW x
    PROVE  CardSet(u, CardWith(u, a, k, x), a, k, x)
<1> DEFINE w == CardWith(u, a, k, x)
<1>1. UiShape(w) BY DEF UiParts, UiShape, CardWith, UiFields
<1>2. w.cards = [b \in DOMAIN u.cards |-> [j \in CardFields |-> IF b = a /\ j = k THEN x ELSE u.cards[b][j]]]
  BY DEF UiParts, UiShape, CardWith, UiFields
<1>3. \A f \in UiFields \ {"cards"} : w[f] = u[f]
  BY DEF UiParts, UiShape, CardWith
<1> HIDE DEF w
<1>4. CardsShape(w.cards) BY <1>2 DEF CardsShape
<1>5. w.calls = u.calls /\ w.shown = u.shown BY <1>3 DEF UiFields
<1> QED BY <1>1, <1>2, <1>3, <1>4, <1>5 DEF UiParts, CardSet, w

LEMMA CardTame ==
    ASSUME NEW u, UiParts(u), NEW a, NEW x
    PROVE  /\ Tame(u, [u EXCEPT !.cards[a].form = x])
           /\ Tame(u, [u EXCEPT !.cards[a].base = x])
           /\ Tame(u, [u EXCEPT !.cards[a].success = x])
           /\ Tame(u, [u EXCEPT !.cards[a].dialog = x])
<1>1. ASSUME NEW k \in {"form", "base", "success", "dialog"} PROVE Tame(u, CardWith(u, a, k, x))
  <2> DEFINE w == CardWith(u, a, k, x)
  <2>1. k \in CardFields /\ k \notin Promised /\ Promised \subseteq CardFields BY DEF CardFields, Promised
  <2>2. /\ UiParts(w) /\ \A f \in UiFields \ {"cards"} : w[f] = u[f]
        /\ DOMAIN w.cards = DOMAIN u.cards
        /\ \A b \in DOMAIN u.cards, j \in CardFields :
             w.cards[b][j] = IF b = a /\ j = k THEN x ELSE u.cards[b][j]
    <3>1. CardSet(u, w, a, k, x) BY <2>1, CardWithSets
    <3> HIDE DEF w
    <3> QED BY <3>1 DEF CardSet
  <2> HIDE DEF w
  <2>3. \A b \in DOMAIN u.cards : \A j \in Promised : w.cards[b][j] = u.cards[b][j] BY <2>1, <2>2
  <2>4. /\ w.calls = u.calls /\ w.expanded = u.expanded /\ w.header = u.header
        /\ \A f \in {"at", "adding", "addSaving", "shown", "there"} : w[f] = u[f]
    BY <2>2 DEF UiFields
  <2> QED BY <2>2, <2>3, <2>4 DEF Tame, w
<1>2. Tame(u, CardWith(u, a, "form", x)) BY <1>1
<1>3. Tame(u, CardWith(u, a, "base", x)) BY <1>1
<1>4. Tame(u, CardWith(u, a, "success", x)) BY <1>1
<1>5. Tame(u, CardWith(u, a, "dialog", x)) BY <1>1
<1>6. /\ [u EXCEPT !.cards[a].form = x] = CardWith(u, a, "form", x)
      /\ [u EXCEPT !.cards[a].base = x] = CardWith(u, a, "base", x)
      /\ [u EXCEPT !.cards[a].success = x] = CardWith(u, a, "success", x)
      /\ [u EXCEPT !.cards[a].dialog = x] = CardWith(u, a, "dialog", x)
  BY CardWithIs
<1> QED BY <1>2, <1>3, <1>4, <1>5, <1>6

LEMMA FieldTame ==
    ASSUME NEW u, UiParts(u), NEW x
    PROVE  /\ Tame(u, [u EXCEPT !.editing = x])
           /\ Tame(u, [u EXCEPT !.collapse = x])
           /\ Tame(u, [u EXCEPT !.target = x])
           /\ Tame(u, [u EXCEPT !.asked = x])
           /\ Tame(u, [u EXCEPT !.layout = x])
<1>1. ASSUME NEW w, UiShape(w),
             \A f \in UiFields \ {"editing", "collapse", "target", "asked", "layout"} : w[f] = u[f]
      PROVE  Tame(u, w)
  <2>1. /\ w.cards = u.cards /\ w.calls = u.calls /\ w.shown = u.shown /\ w.expanded = u.expanded
        /\ w.header = u.header /\ \A f \in {"at", "adding", "addSaving", "shown", "there"} : w[f] = u[f]
    BY <1>1 DEF UiFields
  <2>2. UiParts(w) BY <1>1, <2>1 DEF UiParts
  <2> QED BY <2>1, <2>2 DEF Tame
<1>2. UiShape(u) BY DEF UiParts
<1>3. ASSUME NEW f \in {"editing", "collapse", "target", "asked", "layout"}, NEW w, w = [u EXCEPT ![f] = x]
      PROVE  Tame(u, w)
  <2>1. w = [k \in UiFields |-> IF k = f THEN x ELSE u[k]] BY <1>2, <1>3 DEF UiShape, UiFields
  <2>2. UiShape(w) /\ \A k \in UiFields \ {f} : w[k] = u[k] BY <2>1 DEF UiShape
  <2> QED BY <1>1, <2>2
<1>4. Tame(u, [u EXCEPT !.editing = x]) BY <1>3
<1>5. Tame(u, [u EXCEPT !.collapse = x]) BY <1>3
<1>6. Tame(u, [u EXCEPT !.target = x]) BY <1>3
<1>7. Tame(u, [u EXCEPT !.asked = x]) BY <1>3
<1>8. Tame(u, [u EXCEPT !.layout = x]) BY <1>3
<1> QED BY <1>4, <1>5, <1>6, <1>7, <1>8

LEMMA CollapsedTame ==
    ASSUME NEW u, UiParts(u)
    PROVE  Tame(u, Grid!Collapsed(u))
<1> DEFINE w == Grid!Collapsed(u)
<1>1. /\ UiShape(w) /\ w.expanded = None
      /\ \A f \in UiFields \ {"expanded", "header", "layout"} : w[f] = u[f]
  BY DEF UiParts, UiShape, UiFields, Grid!Collapsed
<1> HIDE DEF w
<1>2. /\ w.cards = u.cards /\ w.calls = u.calls /\ w.shown = u.shown
      /\ \A f \in {"at", "adding", "addSaving", "shown", "there"} : w[f] = u[f]
  BY <1>1 DEF UiFields
<1>3. UiParts(w) BY <1>1, <1>2 DEF UiParts
<1> QED BY <1>1, <1>2, <1>3 DEF Tame, w

LEMMA TameParts == ASSUME NEW u, NEW w, Tame(u, w) PROVE UiParts(w)
  BY DEF Tame

LEMMA EditEndTame ==
    ASSUME NEW u, UiParts(u), NEW a, NEW yes
    PROVE  Tame(u, Grid!EditEnd(u, a, yes))
<1> DEFINE e == IF u.editing \in Grid!Kind(a) THEN None ELSE u.editing
           ended == [u EXCEPT !.editing = e]
           gone == Grid!Collapsed(ended)
           last == [gone EXCEPT !.collapse = gone.collapse \ Grid!Kind(a)]
<1>1. Grid!EditEnd(u, a, yes) = IF yes THEN last ELSE ended
  BY DEF Grid!EditEnd
<1>2. Tame(u, ended) BY FieldTame
<1>3. UiParts(ended) BY <1>2, TameParts
<1>4. Tame(ended, gone) BY <1>3, CollapsedTame
<1>5. UiParts(gone) BY <1>4, TameParts
<1>6. Tame(gone, last) BY <1>5, FieldTame
<1>7. Tame(u, last) BY <1>2, <1>4, <1>6, TameOn
<1> QED BY <1>1, <1>2, <1>7

LEMMA CancelTame ==
    ASSUME NEW u, UiParts(u), NEW a
    PROVE  Tame(u, Grid!performEditCancel(u, a))
<1> DEFINE back == IF u.cards[a].base # Grid!Blank THEN u.cards[a].base ELSE u.shown[a]
           f == [u EXCEPT !.cards[a].form = back]
           s == [f EXCEPT !.cards[a].success = FALSE]
<1>1. Grid!performEditCancel(u, a) = Grid!EditEnd(s, a, a \in u.collapse)
  BY DEF Grid!performEditCancel
<1>2. Tame(u, f) BY CardTame
<1>3. UiParts(f) BY <1>2, TameParts
<1>4. Tame(f, s) BY <1>3, CardTame
<1>5. UiParts(s) BY <1>4, TameParts
<1> HIDE DEF s
<1>6. Tame(s, Grid!EditEnd(s, a, a \in u.collapse)) BY <1>5, EditEndTame
<1>7. Tame(u, s) BY <1>2, <1>4, TameOn
<1> QED BY <1>1, <1>6, <1>7, TameOn

LEMMA AskOrCancelTame ==
    ASSUME NEW u, UiParts(u), NEW a
    PROVE  Tame(u, Grid!AskOrCancel(u, a))
<1>1. Tame(u, [u EXCEPT !.cards[a].dialog = TRUE]) BY CardTame
<1>2. Tame(u, Grid!performEditCancel(u, a)) BY CancelTame
<1> QED BY <1>1, <1>2 DEF Grid!AskOrCancel

LEMMA EffectsTame ==
    ASSUME NEW old, NEW u, UiParts(u)
    PROVE  Tame(u, Grid!RefillEffect(old, u)) /\ Tame(u, Grid!CollapseEffect(old, u))
<1>1. Tame(u, [u EXCEPT !.cards[u.editing].form = u.shown[u.editing]]) BY CardTame
<1>2. Tame(u, Grid!AskOrCancel(u, u.editing)) BY AskOrCancelTame
<1>3. Tame(u, u) BY TameSelf
<1>4. Grid!RefillEffect(old, u) \in {u, [u EXCEPT !.cards[u.editing].form = u.shown[u.editing]]}
  BY DEF Grid!RefillEffect
<1>5. Grid!CollapseEffect(old, u) \in {u, Grid!AskOrCancel(u, u.editing)}
  BY DEF Grid!CollapseEffect
<1> QED BY <1>1, <1>2, <1>3, <1>4, <1>5

\* What a step makes of the dashboard is good once it is rendered with its effects.
LEMMA SettleCompletes ==
    ASSUME NEW old, NEW u, Pre(old, u)
    PROVE  Good(Grid!Settle(old, u))
<1> DEFINE m == Grid!Mount(old, u)
           a == Grid!RefillEffect(old, m)
           b == Grid!CollapseEffect(old, a)
<1>1. Good(m) BY MountCompletes
<1> HIDE DEF m
<1>2. Pre(m, m) BY <1>1, GoodPre
<1>3. Tame(m, a) BY <1>1, EffectsTame DEF Good
<1>4. UiParts(a) BY <1>3, TameParts
<1>5. DOMAIN a.cards = DOMAIN m.cards /\ (a.expanded = m.expanded \/ a.expanded = None)
  BY <1>3 DEF Tame
<1> HIDE DEF a
<1>6. Tame(a, b) BY <1>4, EffectsTame
<1> HIDE DEF b
<1>7. Pre(m, b) BY <1>2, <1>3, <1>6, TamePre
<1>8. Pre(a, b)
  <2>1. b.at # None => a.expanded = None BY <1>5, <1>7 DEF Pre
  <2>2. HeaderDue(a, b) BY <1>5, <1>7 DEF Pre, HeaderDue
  <2> QED BY <1>5, <1>7, <2>1, <2>2 DEF Pre
<1>9. Good(Grid!Mount(a, b)) BY <1>8, MountCompletes
<1> QED BY <1>9 DEF Grid!Settle, m, a, b

LEMMA AskTame ==
    ASSUME NEW u, UiParts(u), NEW c, CallShape(c)
    PROVE  Tame(u, Grid!Ask(u, c)) /\ c \in Grid!Ask(u, c).calls
<1> DEFINE w == Grid!Ask(u, c)
<1>1. UiShape(w) /\ w.calls = u.calls \cup {c} /\ \A f \in UiFields \ {"calls"} : w[f] = u[f]
  BY DEF UiParts, UiShape, UiFields, Grid!Ask
<1> HIDE DEF w
<1>2. /\ w.cards = u.cards /\ w.shown = u.shown /\ w.expanded = u.expanded /\ w.header = u.header
      /\ \A f \in {"at", "adding", "addSaving", "shown", "there"} : w[f] = u[f]
  BY <1>1 DEF UiFields
<1>3. UiParts(w) BY <1>1, <1>2 DEF UiParts
<1> QED BY <1>1, <1>2, <1>3 DEF Tame, w

LEMMA AnsweredTame ==
    ASSUME NEW u, UiParts(u), NEW c, ~Awaited(c)
    PROVE  Tame(u, Grid!Answered(u, c))
<1> DEFINE w == Grid!Answered(u, c)
<1>1. UiShape(w) /\ w.calls = u.calls \ {c} /\ \A f \in UiFields \ {"calls"} : w[f] = u[f]
  BY DEF UiParts, UiShape, UiFields, Grid!Answered
<1> HIDE DEF w
<1>2. /\ w.cards = u.cards /\ w.shown = u.shown /\ w.expanded = u.expanded /\ w.header = u.header
      /\ \A f \in {"at", "adding", "addSaving", "shown", "there"} : w[f] = u[f]
  BY <1>1 DEF UiFields
<1>3. UiParts(w) BY <1>1, <1>2 DEF UiParts
<1> QED BY <1>1, <1>2, <1>3 DEF Tame, w

\* n has other calls than u.
CallsSet(u, n) == UiParts(n) /\ \A f \in UiFields \ {"calls"} : n[f] = u[f]

LEMMA CallsSetIs ==
    ASSUME NEW u, UiParts(u), NEW c
    PROVE  /\ CallsSet(u, Grid!Answered(u, c)) /\ Grid!Answered(u, c).calls = u.calls \ {c}
           /\ CallShape(c) => CallsSet(u, Grid!Ask(u, c)) /\ Grid!Ask(u, c).calls = u.calls \cup {c}
<1>1. ASSUME NEW n, UiShape(n), \A f \in UiFields \ {"calls"} : n[f] = u[f],
             \A d \in n.calls : CallShape(d)
      PROVE  CallsSet(u, n)
  <2>1. n.cards = u.cards /\ n.shown = u.shown BY <1>1 DEF UiFields
  <2> QED BY <1>1, <2>1 DEF UiParts, CallsSet
<1>2. \A d \in u.calls : CallShape(d) BY DEF UiParts
<1>3. /\ UiShape(Grid!Answered(u, c)) /\ Grid!Answered(u, c).calls = u.calls \ {c}
      /\ \A f \in UiFields \ {"calls"} : Grid!Answered(u, c)[f] = u[f]
  BY DEF UiParts, UiShape, UiFields, Grid!Answered
<1>4. /\ UiShape(Grid!Ask(u, c)) /\ Grid!Ask(u, c).calls = u.calls \cup {c}
      /\ \A f \in UiFields \ {"calls"} : Grid!Ask(u, c)[f] = u[f]
  BY DEF UiParts, UiShape, UiFields, Grid!Ask
<1>5. CallsSet(u, Grid!Answered(u, c)) BY <1>1, <1>2, <1>3
<1>6. CallShape(c) => CallsSet(u, Grid!Ask(u, c)) BY <1>1, <1>2, <1>4
<1> QED BY <1>3, <1>4, <1>5, <1>6

\* One card is told to wait, or not to.
LEMMA WaitPre ==
    ASSUME NEW old, NEW u, Pre(old, u), NEW n, CallsSet(u, n),
           NEW a, NEW k \in {"saving", "testing"}, NEW x, NEW w, CardSet(n, w, a, k, x),
           \A c \in u.calls : Awaited(c) /\ (c.kind = "post" \/ c.a # a) => c \in n.calls,
           a \in DOMAIN w.cards => CardWaits(w, a)
    PROVE  Pre(old, w)
<1>1. /\ n.cards = u.cards /\ n.shown = u.shown /\ n.expanded = u.expanded
      /\ n.header = u.header /\ n.at = u.at /\ n.adding = u.adding /\ n.addSaving = u.addSaving
      /\ n.there = u.there
  BY DEF CallsSet, UiFields
<1>2. UiParts(w) /\ DOMAIN w.cards = DOMAIN u.cards /\ w.calls = n.calls
  BY <1>1 DEF CardSet, UiFields
<1>3. /\ w.shown = u.shown /\ w.expanded = u.expanded
      /\ w.header = u.header /\ w.at = u.at /\ w.adding = u.adding /\ w.addSaving = u.addSaving
      /\ w.there = u.there
  BY <1>1 DEF CardSet, UiFields
<1>5. AddWaits(w)
  <2>1. AddWaits(u) BY DEF Pre, Waits
  <2>2. \A c \in u.calls : c.kind = "post" /\ c.alive => c \in w.calls BY <1>2 DEF Awaited
  <2> QED BY <1>3, <2>1, <2>2 DEF AddWaits
<1>6. ASSUME NEW b \in DOMAIN w.cards PROVE CardWaits(w, b)
  <2>1. b \in DOMAIN u.cards /\ CardWaits(u, b) BY <1>2 DEF Pre, Waits
  <2>2. CASE b # a
    <3>0. "saving" \in CardFields /\ "testing" \in CardFields BY DEF CardFields
    <3>1. w.cards[b].saving = u.cards[b].saving /\ w.cards[b].testing = u.cards[b].testing
      BY <1>1, <2>1, <2>2, <3>0 DEF CardSet
    <3>2. ASSUME NEW c \in u.calls, c.kind = "test" \/ (c.kind = "put" /\ c.alive), c.a = b PROVE c \in w.calls
      BY <1>2, <2>2, <3>2 DEF Awaited
    <3> QED BY <2>1, <3>1, <3>2 DEF CardWaits
  <2> QED BY <2>2
<1>7. Closes(w) /\ OnRow(w)
  <2>1. ASSUME NEW b \in DOMAIN w.cards
        PROVE  /\ b \in DOMAIN u.cards
               /\ w.cards[b].previews = u.cards[b].previews
               /\ w.cards[b].closing = u.cards[b].closing
    <3>1. "previews" \in CardFields /\ "closing" \in CardFields BY DEF CardFields
    <3>2. b \in DOMAIN u.cards BY <1>2
    <3> QED BY <1>1, <3>1, <3>2 DEF CardSet
  <2> QED BY <1>3, <2>1 DEF Closes, OnRow, Pre
<1>8. HeaderDue(old, w) BY <1>3 DEF HeaderDue, Pre
<1> QED BY <1>2, <1>3, <1>5, <1>6, <1>7, <1>8 DEF Pre, Waits

\* A save is answered, and a test.
LEMMA AnsweredPre ==
    ASSUME NEW old, NEW u, Pre(old, u), NEW c
    PROVE  /\ c.kind = "put" =>
                Pre(old, [Grid!Answered(u, c) EXCEPT !.cards[c.a].saving = FALSE])
           /\ c.kind = "test" =>
                Pre(old, [Grid!Answered(u, c) EXCEPT !.cards[c.a].testing = FALSE])
<1> DEFINE n == Grid!Answered(u, c)
<1>0. UiParts(u) BY DEF Pre
<1>1. CallsSet(u, n) /\ n.calls = u.calls \ {c} BY <1>0, CallsSetIs
<1>2. UiParts(n) BY <1>1 DEF CallsSet
<1> HIDE DEF n
<1>3. /\ [n EXCEPT !.cards[c.a].saving = FALSE] = CardWith(n, c.a, "saving", FALSE)
      /\ [n EXCEPT !.cards[c.a].testing = FALSE] = CardWith(n, c.a, "testing", FALSE)
  <2> DEFINE a == c.a
             no == FALSE
  <2> HIDE DEF a, no
  <2>1. /\ [n EXCEPT !.cards[a].saving = no] = CardWith(n, a, "saving", no)
        /\ [n EXCEPT !.cards[a].testing = no] = CardWith(n, a, "testing", no)
    BY <1>2, CardWithIs
  <2> QED BY <2>1 DEF a, no
<1>4. "saving" \in CardFields /\ "testing" \in CardFields BY DEF CardFields
<1>5. ASSUME c.a \in DOMAIN u.cards PROVE CardWaits(u, c.a) BY <1>5 DEF Pre, Waits
<1>6. n.cards = u.cards BY <1>1 DEF CallsSet, UiFields
<1>7. ASSUME c.kind = "put" PROVE Pre(old, CardWith(n, c.a, "saving", FALSE))
  <2> DEFINE w == CardWith(n, c.a, "saving", FALSE)
  <2>1. CardSet(n, w, c.a, "saving", FALSE) BY <1>2, <1>4, CardWithSets
  <2> HIDE DEF w
  <2>2. w.calls = n.calls BY <2>1 DEF CardSet, UiFields
  <2>3. ASSUME c.a \in DOMAIN w.cards PROVE CardWaits(w, c.a)
    <3>1. c.a \in DOMAIN u.cards /\ c.a \in DOMAIN n.cards BY <1>6, <2>1, <2>3 DEF CardSet
    <3>2. w.cards[c.a].saving = FALSE /\ w.cards[c.a].testing = u.cards[c.a].testing
      <4> DEFINE a == c.a
      <4> HIDE DEF a
      <4>1. w.cards[a]["saving"] = FALSE BY <1>4, <2>1, <3>1 DEF CardSet, a
      <4>2. w.cards[a]["testing"] = n.cards[a]["testing"] BY <1>4, <2>1, <3>1 DEF CardSet, a
      <4> QED BY <1>6, <4>1, <4>2 DEF a
    <3>3. \A d \in u.calls : d.kind = "test" => d \in w.calls BY <1>1, <1>7, <2>2
    <3> QED BY <1>5, <3>1, <3>2, <3>3 DEF CardWaits
  <2>4. \A d \in u.calls : Awaited(d) /\ (d.kind = "post" \/ d.a # c.a) => d \in n.calls
    BY <1>1, <1>7
  <2> QED BY <1>1, <2>1, <2>3, <2>4, WaitPre DEF w
<1>8. ASSUME c.kind = "test" PROVE Pre(old, CardWith(n, c.a, "testing", FALSE))
  <2> DEFINE w == CardWith(n, c.a, "testing", FALSE)
  <2>1. CardSet(n, w, c.a, "testing", FALSE) BY <1>2, <1>4, CardWithSets
  <2> HIDE DEF w
  <2>2. w.calls = n.calls BY <2>1 DEF CardSet, UiFields
  <2>3. ASSUME c.a \in DOMAIN w.cards PROVE CardWaits(w, c.a)
    <3>1. c.a \in DOMAIN u.cards /\ c.a \in DOMAIN n.cards BY <1>6, <2>1, <2>3 DEF CardSet
    <3>2. w.cards[c.a].testing = FALSE /\ w.cards[c.a].saving = u.cards[c.a].saving
      <4> DEFINE a == c.a
      <4> HIDE DEF a
      <4>1. w.cards[a]["testing"] = FALSE BY <1>4, <2>1, <3>1 DEF CardSet, a
      <4>2. w.cards[a]["saving"] = n.cards[a]["saving"] BY <1>4, <2>1, <3>1 DEF CardSet, a
      <4> QED BY <1>6, <4>1, <4>2 DEF a
    <3>3. \A d \in u.calls : d.kind = "put" => d \in w.calls BY <1>1, <1>8, <2>2
    <3> QED BY <1>5, <3>1, <3>2, <3>3 DEF CardWaits
  <2>4. \A d \in u.calls : Awaited(d) /\ (d.kind = "post" \/ d.a # c.a) => d \in n.calls
    BY <1>1, <1>8
  <2> QED BY <1>1, <2>1, <2>3, <2>4, WaitPre DEF w
<1> QED BY <1>3, <1>7, <1>8 DEF n

\* A save is asked, and a test.
LEMMA AskedPre ==
    ASSUME NEW old, NEW u, Pre(old, u), NEW c, CallShape(c)
    PROVE  /\ c.kind = "put" /\ c.alive =>
                Pre(old, [Grid!Ask(u, c) EXCEPT !.cards[c.a].saving = TRUE])
           /\ c.kind = "test" =>
                Pre(old, [Grid!Ask(u, c) EXCEPT !.cards[c.a].testing = TRUE])
<1> DEFINE n == Grid!Ask(u, c)
<1>0. UiParts(u) BY DEF Pre
<1>1. CallsSet(u, n) /\ n.calls = u.calls \cup {c} BY <1>0, CallsSetIs
<1>2. UiParts(n) BY <1>1 DEF CallsSet
<1> HIDE DEF n
<1>3. /\ [n EXCEPT !.cards[c.a].saving = TRUE] = CardWith(n, c.a, "saving", TRUE)
      /\ [n EXCEPT !.cards[c.a].testing = TRUE] = CardWith(n, c.a, "testing", TRUE)
  <2> DEFINE a == c.a
             yes == TRUE
  <2> HIDE DEF a, yes
  <2>1. /\ [n EXCEPT !.cards[a].saving = yes] = CardWith(n, a, "saving", yes)
        /\ [n EXCEPT !.cards[a].testing = yes] = CardWith(n, a, "testing", yes)
    BY <1>2, CardWithIs
  <2> QED BY <2>1 DEF a, yes
<1>4. "saving" \in CardFields /\ "testing" \in CardFields BY DEF CardFields
<1>5. ASSUME c.a \in DOMAIN u.cards PROVE CardWaits(u, c.a) BY <1>5 DEF Pre, Waits
<1>6. n.cards = u.cards BY <1>1 DEF CallsSet, UiFields
<1>7. ASSUME c.kind = "put", c.alive PROVE Pre(old, CardWith(n, c.a, "saving", TRUE))
  <2> DEFINE w == CardWith(n, c.a, "saving", TRUE)
  <2>1. CardSet(n, w, c.a, "saving", TRUE) BY <1>2, <1>4, CardWithSets
  <2> HIDE DEF w
  <2>2. w.calls = n.calls BY <2>1 DEF CardSet, UiFields
  <2>3. ASSUME c.a \in DOMAIN w.cards PROVE CardWaits(w, c.a)
    <3>1. c.a \in DOMAIN u.cards /\ c.a \in DOMAIN n.cards BY <1>6, <2>1, <2>3 DEF CardSet
    <3>2. w.cards[c.a].testing = u.cards[c.a].testing
      <4> DEFINE a == c.a
      <4> HIDE DEF a
      <4>1. w.cards[a]["testing"] = n.cards[a]["testing"] BY <1>4, <2>1, <3>1 DEF CardSet, a
      <4> QED BY <1>6, <4>1 DEF a
    <3>3. c \in w.calls /\ \A d \in u.calls : d \in w.calls BY <1>1, <2>2
    <3> QED BY <1>5, <1>7, <3>1, <3>2, <3>3 DEF CardWaits
  <2>4. \A d \in u.calls : d \in n.calls
    BY <1>1
  <2> QED BY <1>1, <2>1, <2>3, <2>4, WaitPre DEF w
<1>8. ASSUME c.kind = "test" PROVE Pre(old, CardWith(n, c.a, "testing", TRUE))
  <2> DEFINE w == CardWith(n, c.a, "testing", TRUE)
  <2>1. CardSet(n, w, c.a, "testing", TRUE) BY <1>2, <1>4, CardWithSets
  <2> HIDE DEF w
  <2>2. w.calls = n.calls BY <2>1 DEF CardSet, UiFields
  <2>3. ASSUME c.a \in DOMAIN w.cards PROVE CardWaits(w, c.a)
    <3>1. c.a \in DOMAIN u.cards /\ c.a \in DOMAIN n.cards BY <1>6, <2>1, <2>3 DEF CardSet
    <3>2. w.cards[c.a].saving = u.cards[c.a].saving
      <4> DEFINE a == c.a
      <4> HIDE DEF a
      <4>1. w.cards[a]["saving"] = n.cards[a]["saving"] BY <1>4, <2>1, <3>1 DEF CardSet, a
      <4> QED BY <1>6, <4>1 DEF a
    <3>3. c \in w.calls /\ \A d \in u.calls : d \in w.calls BY <1>1, <2>2
    <3> QED BY <1>5, <1>8, <3>1, <3>2, <3>3 DEF CardWaits
  <2>4. \A d \in u.calls : d \in n.calls
    BY <1>1
  <2> QED BY <1>1, <2>1, <2>3, <2>4, WaitPre DEF w
<1> QED BY <1>3, <1>7, <1>8 DEF n

LEMMA SavingPre ==
    ASSUME NEW old, NEW u, Pre(old, u), NEW a
    PROVE  Pre(old, Grid!Saving(u, a)) /\ Pre(old, Grid!SavingCompressor(u, a))
<1> DEFINE c == [kind |-> "put", a |-> a, v |-> u.cards[a].form, collapses |-> a \in ui.collapse, alive |-> TRUE]
           n == [Grid!Ask(u, c) EXCEPT !.cards[a].saving = TRUE]
           w == [n EXCEPT !.cards[a].success = FALSE]
<1>1. CallShape(c) /\ c.kind = "put" /\ c.alive /\ c.a = a
  <2>1. DOMAIN c = {"kind", "a", "v", "collapses", "alive"} /\ c.alive = TRUE /\ c.kind = "put" /\ c.a = a
    OBVIOUS
  <2>2. c = [k \in DOMAIN c |-> c[k]] OBVIOUS
  <2> QED BY <2>1, <2>2 DEF CallShape
<1>2. Grid!SavingCompressor(u, a) = n
  BY DEF Grid!SavingCompressor, Grid!Ask, Pre, UiParts, UiShape, UiFields
<1>3. Grid!Saving(u, a) = w
  <2> DEFINE b == [u EXCEPT !.cards[a].saving = TRUE, !.cards[a].success = FALSE]
             d == [[u EXCEPT !.cards[a].saving = TRUE] EXCEPT !.cards[a].success = FALSE]
  <2>1. b = d OBVIOUS
  <2> DEFINE cs == [u.cards EXCEPT ![a] = [@ EXCEPT !.saving = TRUE]]
             ds == [cs EXCEPT ![a] = [@ EXCEPT !.success = FALSE]]
             asked == Grid!Ask(u, c)
  <2>2. d = [u EXCEPT !.cards = ds] BY DEF Pre, UiParts, UiShape, UiFields
  <2>3. asked.cards = u.cards /\ UiShape(asked) BY DEF Grid!Ask, Pre, UiParts, UiShape, UiFields
  <2>4. w = [asked EXCEPT !.cards = ds]
    <3> HIDE DEF asked
    <3>1. n = [asked EXCEPT !.cards = [asked.cards EXCEPT ![a] = [@ EXCEPT !.saving = TRUE]]] BY DEF asked
    <3>2. n = [asked EXCEPT !.cards = cs] BY <2>3, <3>1
    <3> HIDE DEF cs, n
    <3>3. n.cards = cs BY <2>3, <3>2 DEF UiShape, UiFields
    <3>4. w = [n EXCEPT !.cards = [n.cards EXCEPT ![a] = [@ EXCEPT !.success = FALSE]]] OBVIOUS
    <3>5. w = [n EXCEPT !.cards = ds] BY <3>3, <3>4
    <3> HIDE DEF w, ds
    <3> QED BY <2>3, <3>2, <3>5 DEF UiShape, UiFields
  <2> HIDE DEF d, ds
  <2>5. Grid!Ask(d, c) = [asked EXCEPT !.cards = ds]
    BY <2>2 DEF Grid!Ask, Pre, UiParts, UiShape, UiFields
  <2> QED BY <2>1, <2>4, <2>5 DEF Grid!Saving
<1> HIDE DEF c
<1>4. Pre(old, n) BY <1>1, AskedPre
<1> HIDE DEF n
<1>5. Tame(n, w) BY <1>4, CardTame DEF Pre
<1> HIDE DEF w
<1>6. Pre(old, w) BY <1>4, <1>5, TamePre
<1> QED BY <1>2, <1>3, <1>4, <1>6

\* An asset that is shown is expanded.
LEMMA ExpandPre ==
    ASSUME NEW v, Good(v), NEW a \in DOMAIN v.shown, v.there, v.expanded # a
    PROVE  Pre(v, [v EXCEPT !.expanded = a])
<1> DEFINE w == [v EXCEPT !.expanded = a]
<1>1. UiShape(w) /\ w.expanded = a /\ \A f \in UiFields \ {"expanded"} : w[f] = v[f]
  BY DEF Good, UiParts, UiShape, UiFields
<1> HIDE DEF w
<1>2. /\ w.cards = v.cards /\ w.calls = v.calls /\ w.shown = v.shown /\ w.there = v.there
      /\ w.header = v.header /\ w.at = v.at /\ w.adding = v.adding /\ w.addSaving = v.addSaving
  BY <1>1 DEF UiFields
<1>3. UiParts(w) BY <1>1, <1>2 DEF Good, UiParts
<1>4. Waits(w) BY <1>2 DEF Good, Waits, AddWaits, CardWaits
<1>5. Closes(w) /\ OnRow(w) BY <1>2 DEF Good, Closes, OnRow
<1>6. v.expanded = None \/ a \notin DOMAIN v.cards BY DEF Good, Grid!Mounted
<1>7. HeaderDue(v, w) BY <1>1, <1>2, <1>6 DEF HeaderDue
<1> QED BY <1>2, <1>3, <1>4, <1>5, <1>7 DEF Good, Pre, w

\* Other assets are shown.
LEMMA ShownPre ==
    ASSUME NEW v, Good(v), NEW u, Tame(v, u), NEW s, DOMAIN s \subseteq Grid!Assets
    PROVE  Pre(v, [u EXCEPT !.shown = s])
<1> DEFINE w == [u EXCEPT !.shown = s]
<1>0. UiParts(u) /\ Pre(v, u) BY GoodPre, TamePre, TameParts
<1>1. UiShape(w) /\ w.shown = s /\ \A f \in UiFields \ {"shown"} : w[f] = u[f]
  BY <1>0 DEF UiParts, UiShape, UiFields
<1> HIDE DEF w
<1>2. /\ w.cards = u.cards /\ w.calls = u.calls /\ w.expanded = u.expanded /\ w.there = u.there
      /\ w.header = u.header /\ w.at = u.at /\ w.adding = u.adding /\ w.addSaving = u.addSaving
  BY <1>1 DEF UiFields
<1>3. UiParts(w) BY <1>0, <1>1, <1>2 DEF UiParts
<1>4. Waits(w) BY <1>0, <1>2 DEF Pre, Waits, AddWaits, CardWaits
<1>5. Closes(w) /\ OnRow(w) BY <1>0, <1>2 DEF Pre, Closes, OnRow
<1>6. u.expanded # None => u.header = u.expanded /\ u.there BY DEF Good, Tame
<1>7. HeaderDue(v, w) BY <1>2, <1>6 DEF HeaderDue
<1> QED BY <1>0, <1>2, <1>3, <1>4, <1>5, <1>7 DEF Pre, w

\* Nothing becomes of the cards and of the pointer.
LEMMA OtherPre ==
    ASSUME NEW old, NEW u, Pre(old, u), NEW w, UiShape(w),
           w.cards = u.cards, w.at = u.at,
           \A c \in w.calls : CallShape(c),
           \A c \in u.calls : Awaited(c) /\ c.kind # "post" => c \in w.calls,
           DOMAIN w.shown \subseteq Grid!Assets, AddWaits(w), HeaderDue(old, w)
    PROVE  Pre(old, w)
<1>1. UiParts(w) BY DEF Pre, UiParts
<1>2. ASSUME NEW a \in DOMAIN w.cards PROVE CardWaits(w, a)
  <2>1. CardWaits(u, a) BY DEF Pre, Waits
  <2>2. \A c \in u.calls : c.kind = "test" \/ (c.kind = "put" /\ c.alive) => c \in w.calls
    BY DEF Awaited
  <2> QED BY <2>1, <2>2 DEF CardWaits
<1>3. Closes(w) /\ OnRow(w) BY DEF Pre, Closes, OnRow
<1> QED BY <1>1, <1>2, <1>3 DEF Pre, Waits

LEMMA LeavePre ==
    ASSUME NEW v, Good(v)
    PROVE  /\ Pre(v, [v EXCEPT !.there = FALSE, !.expanded = None, !.editing = None, !.collapse = {},
                        !.target = None, !.calls = {c \in @ : c.kind # "saved"}])
           /\ ~v.there => Pre(v, [v EXCEPT !.there = TRUE])
<1>0. Pre(v, v) /\ UiParts(v) /\ AddWaits(v) BY GoodPre DEF Good, Waits
<1>1. Pre(v, [v EXCEPT !.there = FALSE, !.expanded = None, !.editing = None, !.collapse = {},
                        !.target = None, !.calls = {c \in @ : c.kind # "saved"}])
  <2> DEFINE w == [v EXCEPT !.there = FALSE, !.expanded = None, !.editing = None, !.collapse = {},
                        !.target = None, !.calls = {c \in @ : c.kind # "saved"}]
  <2>1. /\ UiShape(w) /\ w.cards = v.cards /\ w.at = v.at /\ w.calls = {c \in v.calls : c.kind # "saved"}
        /\ w.shown = v.shown /\ w.adding = v.adding /\ w.addSaving = v.addSaving /\ w.expanded = None
    BY <1>0 DEF UiParts, UiShape, UiFields
  <2> HIDE DEF w
  <2>2. /\ \A c \in w.calls : CallShape(c)
        /\ \A c \in v.calls : Awaited(c) => c \in w.calls
        /\ DOMAIN w.shown \subseteq Grid!Assets
    BY <1>0, <2>1 DEF UiParts, Awaited
  <2>3. AddWaits(w) BY <1>0, <2>1 DEF AddWaits
  <2>4. HeaderDue(v, w) BY <2>1 DEF HeaderDue
  <2> QED BY <1>0, <2>1, <2>2, <2>3, <2>4, OtherPre DEF w
<1>2. ASSUME ~v.there PROVE Pre(v, [v EXCEPT !.there = TRUE])
  <2> DEFINE w == [v EXCEPT !.there = TRUE]
  <2>1. /\ UiShape(w) /\ w.cards = v.cards /\ w.at = v.at /\ w.calls = v.calls
        /\ w.shown = v.shown /\ w.adding = v.adding /\ w.addSaving = v.addSaving /\ w.expanded = v.expanded
    BY <1>0 DEF UiParts, UiShape, UiFields
  <2> HIDE DEF w
  <2>2. v.expanded = None BY <1>2 DEF Good
  <2>3. AddWaits(w) BY <1>0, <2>1 DEF AddWaits
  <2>4. HeaderDue(v, w) BY <2>1, <2>2 DEF HeaderDue
  <2> QED BY <1>0, <2>1, <2>3, <2>4, OtherPre DEF w, UiParts
<1> QED BY <1>1, <1>2

\* The card that adds an asset is shown, or not any more.
LEMMA AddPre ==
    ASSUME NEW v, Good(v), NEW x, v.adding = None \/ ~v.addSaving
    PROVE  Pre(v, [v EXCEPT !.adding = x])
<1> DEFINE w == [v EXCEPT !.adding = x]
<1>0. Pre(v, v) /\ UiParts(v) /\ AddWaits(v) BY GoodPre DEF Good, Waits
<1>1. /\ UiShape(w) /\ w.cards = v.cards /\ w.at = v.at /\ w.calls = v.calls /\ w.there = v.there
      /\ w.shown = v.shown /\ w.addSaving = v.addSaving /\ w.expanded = v.expanded /\ w.header = v.header
  BY <1>0 DEF UiParts, UiShape, UiFields
<1> HIDE DEF w
<1>2. w.addSaving = FALSE BY <1>0, <1>1 DEF AddWaits
<1>3. AddWaits(w) BY <1>2 DEF AddWaits
<1>4. HeaderDue(v, w) BY <1>1 DEF HeaderDue, Good
<1> QED BY <1>0, <1>1, <1>3, <1>4, OtherPre DEF w, UiParts

LEMMA SaveAddPre ==
    ASSUME NEW v, Good(v), NEW x, v.adding # None
    PROVE  Pre(v, Grid!Ask([v EXCEPT !.addSaving = TRUE], [kind |-> "post", a |-> x, alive |-> TRUE]))
<1> DEFINE c == [kind |-> "post", a |-> x, alive |-> TRUE]
           w == Grid!Ask([v EXCEPT !.addSaving = TRUE], c)
<1>0. Pre(v, v) /\ UiParts(v) /\ AddWaits(v) BY GoodPre DEF Good, Waits
<1>1. CallShape(c) /\ c.kind = "post" /\ c.alive
  <2>1. DOMAIN c = {"kind", "a", "alive"} /\ c.alive = TRUE /\ c.kind = "post" OBVIOUS
  <2>2. c = [k \in DOMAIN c |-> c[k]] OBVIOUS
  <2> QED BY <2>1, <2>2 DEF CallShape
<1> HIDE DEF c
<1>2. /\ UiShape(w) /\ w.cards = v.cards /\ w.at = v.at /\ w.calls = v.calls \cup {c} /\ w.there = v.there
      /\ w.shown = v.shown /\ w.addSaving = TRUE /\ w.expanded = v.expanded /\ w.header = v.header
      /\ w.adding = v.adding
  BY <1>0 DEF UiParts, UiShape, UiFields, Grid!Ask
<1> HIDE DEF w
<1>3. AddWaits(w) BY <1>1, <1>2 DEF AddWaits
<1>4. HeaderDue(v, w) BY <1>2 DEF HeaderDue, Good
<1>5. /\ \A d \in w.calls : CallShape(d)
      /\ \A d \in v.calls : d \in w.calls
      /\ DOMAIN w.shown \subseteq Grid!Assets
  BY <1>0, <1>1, <1>2 DEF UiParts
<1>6. Pre(v, w) BY <1>0, <1>2, <1>3, <1>4, <1>5, OtherPre
<1> QED BY <1>6 DEF w, c

\* The answer, with or without a new asset.
LEMMA AddArrivesPre ==
    ASSUME NEW v, Good(v), NEW c, c.kind = "post", c.alive \in BOOLEAN, NEW s, DOMAIN s \subseteq Grid!Assets,
           NEW u, u = IF c.alive THEN [Grid!Answered(v, c) EXCEPT !.addSaving = FALSE] ELSE Grid!Answered(v, c)
    PROVE  Pre(v, [u EXCEPT !.shown = s, !.adding = IF c.alive THEN None ELSE @]) /\ Pre(v, u)
<1>0. Pre(v, v) /\ UiParts(v) /\ AddWaits(v) BY GoodPre DEF Good, Waits
<1>1. /\ UiShape(u) /\ u.cards = v.cards /\ u.at = v.at /\ u.calls = v.calls \ {c} /\ u.there = v.there
      /\ u.addSaving = (v.addSaving /\ ~c.alive) /\ u.expanded = v.expanded /\ u.header = v.header
      /\ u.adding = v.adding /\ u.shown = v.shown
  <2>1. CASE c.alive = TRUE
    BY <1>0, <2>1 DEF UiParts, UiShape, UiFields, Grid!Answered, AddWaits
  <2>2. CASE c.alive = FALSE
    BY <1>0, <2>2 DEF UiParts, UiShape, UiFields, Grid!Answered, AddWaits
  <2> QED BY <2>1, <2>2
<1>2. ASSUME NEW w, UiShape(w), w.cards = v.cards, w.at = v.at, w.calls = v.calls \ {c}, w.there = v.there,
             w.addSaving = (v.addSaving /\ ~c.alive), w.expanded = v.expanded, w.header = v.header,
             ~c.alive => w.adding = v.adding, DOMAIN w.shown \subseteq Grid!Assets
      PROVE  Pre(v, w)
  <2>1. AddWaits(w) BY <1>0, <1>2 DEF AddWaits
  <2>2. HeaderDue(v, w) BY <1>2 DEF HeaderDue, Good
  <2>3. \A d \in w.calls : CallShape(d) BY <1>0, <1>2 DEF UiParts
  <2>4. \A d \in v.calls : Awaited(d) /\ d.kind # "post" => d \in w.calls BY <1>2
  <2> QED BY <1>0, <1>2, <2>1, <2>2, <2>3, <2>4, OtherPre
<1>3. Pre(v, u) BY <1>0, <1>1, <1>2 DEF UiParts
<1>4. Pre(v, [u EXCEPT !.shown = s, !.adding = IF c.alive THEN None ELSE @])
  <2> DEFINE w == [u EXCEPT !.shown = s, !.adding = IF c.alive THEN None ELSE @]
  <2>1. /\ UiShape(w) /\ w.shown = s /\ (~c.alive => w.adding = u.adding)
        /\ \A f \in UiFields \ {"shown", "adding"} : w[f] = u[f]
    BY <1>1 DEF UiShape, UiFields
  <2> HIDE DEF w
  <2>2. w.cards = u.cards /\ w.at = u.at /\ w.calls = u.calls /\ w.there = u.there
    BY <2>1 DEF UiFields
  <2>3. w.addSaving = u.addSaving /\ w.expanded = u.expanded /\ w.header = u.header
    BY <2>1 DEF UiFields
  <2>4. /\ w.cards = v.cards /\ w.at = v.at /\ w.calls = v.calls \ {c} /\ w.there = v.there
        /\ w.addSaving = (v.addSaving /\ ~c.alive) /\ w.expanded = v.expanded /\ w.header = v.header
    BY <1>1, <2>2, <2>3
  <2>5. UiShape(w) /\ (~c.alive => w.adding = v.adding) /\ DOMAIN w.shown \subseteq Grid!Assets
    BY <1>1, <2>1
  <2>6. Pre(v, w) BY <1>2, <2>4, <2>5
  <2> QED BY <2>6 DEF w
<1> QED BY <1>3, <1>4

-----------------------------------------------------------------------------
(* The pointer *)

\* Only the previews of the cards differ, and which of them close.
Hovers(u, w) ==
    /\ UiParts(w) /\ DOMAIN w.cards = DOMAIN u.cards
    /\ \A f \in UiFields \ {"cards"} : w[f] = u[f]
    /\ \A b \in DOMAIN u.cards :
         w.cards[b].saving = u.cards[b].saving /\ w.cards[b].testing = u.cards[b].testing

LEMMA HoversOn == ASSUME NEW u, NEW v, NEW w, Hovers(u, v), Hovers(v, w) PROVE Hovers(u, w)
  BY DEF Hovers

\* The previews of the card of a become x, or those that close do.
PreviewsSet(u, w, a, x) ==
    /\ Hovers(u, w)
    /\ \A b \in DOMAIN u.cards :
         /\ w.cards[b].previews = IF b = a THEN x ELSE u.cards[b].previews
         /\ w.cards[b].closing = u.cards[b].closing

ClosingSet(u, w, a, x) ==
    /\ Hovers(u, w)
    /\ \A b \in DOMAIN u.cards :
         /\ w.cards[b].previews = u.cards[b].previews
         /\ w.cards[b].closing = IF b = a THEN x ELSE u.cards[b].closing

LEMMA HoverSet ==
    ASSUME NEW u, UiParts(u), NEW a, NEW x
    PROVE  /\ PreviewsSet(u, [u EXCEPT !.cards[a].previews = x], a, x)
           /\ ClosingSet(u, [u EXCEPT !.cards[a].closing = x], a, x)
<1>0. "previews" \in CardFields /\ "closing" \in CardFields /\ "saving" \in CardFields /\ "testing" \in CardFields
  BY DEF CardFields
<1>1. PreviewsSet(u, CardWith(u, a, "previews", x), a, x)
  <2> DEFINE w == CardWith(u, a, "previews", x)
  <2>1. CardSet(u, w, a, "previews", x) BY <1>0, CardWithSets
  <2> HIDE DEF w
  <2>2. ASSUME NEW b \in DOMAIN u.cards
        PROVE  /\ w.cards[b].previews = IF b = a THEN x ELSE u.cards[b].previews
               /\ w.cards[b].closing = u.cards[b].closing
               /\ w.cards[b].saving = u.cards[b].saving /\ w.cards[b].testing = u.cards[b].testing
    BY <1>0, <2>1 DEF CardSet
  <2> QED BY <2>1, <2>2 DEF PreviewsSet, Hovers, CardSet, w
<1>2. ClosingSet(u, CardWith(u, a, "closing", x), a, x)
  <2> DEFINE w == CardWith(u, a, "closing", x)
  <2>1. CardSet(u, w, a, "closing", x) BY <1>0, CardWithSets
  <2> HIDE DEF w
  <2>2. ASSUME NEW b \in DOMAIN u.cards
        PROVE  /\ w.cards[b].previews = u.cards[b].previews
               /\ w.cards[b].closing = IF b = a THEN x ELSE u.cards[b].closing
               /\ w.cards[b].saving = u.cards[b].saving /\ w.cards[b].testing = u.cards[b].testing
    BY <1>0, <2>1 DEF CardSet
  <2> QED BY <2>1, <2>2 DEF ClosingSet, Hovers, CardSet, w
<1>3. /\ [u EXCEPT !.cards[a].previews = x] = CardWith(u, a, "previews", x)
      /\ [u EXCEPT !.cards[a].closing = x] = CardWith(u, a, "closing", x)
  BY CardWithIs
<1> QED BY <1>1, <1>2, <1>3

\* The pointer leaves the row p, which hides what it shows or is about to.
Leaves(u, w, p) ==
    /\ Hovers(u, w)
    /\ \A b \in DOMAIN u.cards :
         /\ w.cards[b].previews \subseteq u.cards[b].previews
         /\ u.cards[b].closing \subseteq w.cards[b].closing
         /\ \A r : r \in w.cards[b].closing => r \in u.cards[b].closing \/ (b = p.a /\ r = p.r)
         /\ b = p.a => p.r \notin w.cards[b].previews \/ p.r \in w.cards[b].closing

\* It comes to the place q.
Enters(u, w, q) ==
    /\ Hovers(u, w)
    /\ \A b \in DOMAIN u.cards :
         /\ \A r : ~(b = q.a /\ r = q.r) =>
                /\ r \in w.cards[b].previews <=> r \in u.cards[b].previews
                /\ r \in w.cards[b].closing <=> r \in u.cards[b].closing
         /\ b = q.a /\ q.part = "preview" => q.r \notin w.cards[b].closing

LEMMA ScheduleLeaves ==
    ASSUME NEW u, UiParts(u), NEW p
    PROVE  Leaves(u, Grid!scheduleClose(u, p), p)
<1> DEFINE a == p.a
           hid == u.cards[p.a].previews \ {p.r}
           due == u.cards[p.a].closing \cup {p.r}
           v == [u EXCEPT !.cards[a].previews = hid]
           w == [u EXCEPT !.cards[a].closing = due]
<1>1. Grid!scheduleClose(u, p) = IF p.a \in Cnc THEN v ELSE w
  BY DEF Grid!scheduleClose
<1>2. PreviewsSet(u, v, a, hid) /\ ClosingSet(u, w, a, due)
  <2> HIDE DEF a, hid, due
  <2> QED BY HoverSet
<1> HIDE DEF v, w
<1>3. Leaves(u, v, p) BY <1>2 DEF Leaves, PreviewsSet
<1>4. Leaves(u, w, p) BY <1>2 DEF Leaves, ClosingSet
<1> QED BY <1>1, <1>3, <1>4

LEMMA ShownEnters ==
    ASSUME NEW u, UiParts(u), NEW q
    PROVE  /\ Enters(u, Grid!Kept(u, q), q)
           /\ q.part # "preview" => Enters(u, Grid!ShownFor(u, q), q)
           /\ Enters(u, Grid!Kept(Grid!ShownFor(u, q), q), q)
<1> DEFINE a == q.a
           shown == u.cards[q.a].previews \cup {q.r}
           v == Grid!ShownFor(u, q)
           w == Grid!Kept(v, q)
<1>1. PreviewsSet(u, v, a, shown)
  <2>1. v = [u EXCEPT !.cards[a].previews = shown]
    BY DEF Grid!ShownFor
  <2> HIDE DEF a, shown, v
  <2> QED BY <2>1, HoverSet
<1>2. ASSUME NEW s, UiParts(s)
      PROVE  ClosingSet(s, Grid!Kept(s, q), a, s.cards[q.a].closing \ {q.r})
  <2> DEFINE kept == s.cards[q.a].closing \ {q.r}
  <2>1. Grid!Kept(s, q) = [s EXCEPT !.cards[a].closing = kept]
    BY DEF Grid!Kept
  <2> HIDE DEF a, kept
  <2>2. ClosingSet(s, [s EXCEPT !.cards[a].closing = kept], a, kept) BY <1>2, HoverSet
  <2> QED BY <2>1, <2>2 DEF kept
<1>3. Enters(u, Grid!Kept(u, q), q)
  <2> DEFINE t == Grid!Kept(u, q)
             less == u.cards[q.a].closing \ {q.r}
  <2>1. ClosingSet(u, t, q.a, less) BY <1>2
  <2> HIDE DEF t
  <2>2. Hovers(u, t) BY <2>1 DEF ClosingSet
  <2>3. ASSUME NEW b \in DOMAIN u.cards
        PROVE  /\ t.cards[b].previews = u.cards[b].previews
               /\ t.cards[b].closing = IF b = q.a THEN less ELSE u.cards[b].closing
    BY <2>1 DEF ClosingSet
  <2>4. Enters(u, t, q) BY <2>2, <2>3 DEF Enters
  <2> QED BY <2>4 DEF t
<1> HIDE DEF v
<1>4. q.part # "preview" => Enters(u, v, q) BY <1>1 DEF Enters, PreviewsSet
<1>5. ClosingSet(v, w, a, v.cards[q.a].closing \ {q.r})
  BY <1>1, <1>2 DEF PreviewsSet, Hovers
<1> HIDE DEF w
<1>6. Hovers(u, w) BY <1>1, <1>5, HoversOn DEF PreviewsSet, ClosingSet
<1>7. DOMAIN v.cards = DOMAIN u.cards BY <1>1 DEF PreviewsSet, Hovers
<1>8. Enters(u, w, q) BY <1>1, <1>5, <1>6, <1>7 DEF Enters, PreviewsSet, ClosingSet
<1> QED BY <1>3, <1>4, <1>8 DEF v, w

\* From a good state only the previews and the pointer change.
LEMMA HoverPre ==
    ASSUME NEW v, Good(v), NEW q, NEW w, Hovers([v EXCEPT !.at = q], w), Closes(w), OnRow(w),
           q # None => q.a \in DOMAIN v.cards /\ v.expanded = None
    PROVE  Pre(v, w)
<1> DEFINE u == [v EXCEPT !.at = q]
<1>1. /\ UiShape(u) /\ u.at = q /\ \A f \in UiFields \ {"at"} : u[f] = v[f]
  BY DEF Good, UiParts, UiShape, UiFields
<1>2. Hovers(u, w) OBVIOUS
<1> HIDE DEF u
<1>3. /\ w.at = q /\ w.calls = v.calls /\ w.expanded = v.expanded /\ w.there = v.there /\ w.header = v.header
      /\ w.adding = v.adding /\ w.addSaving = v.addSaving /\ u.cards = v.cards
  BY <1>1, <1>2 DEF Hovers, UiFields
<1>4. /\ UiParts(w) /\ DOMAIN w.cards = DOMAIN v.cards
      /\ \A b \in DOMAIN v.cards :
           w.cards[b].saving = v.cards[b].saving /\ w.cards[b].testing = v.cards[b].testing
  BY <1>2, <1>3 DEF Hovers
<1>5. AddWaits(w) BY <1>3 DEF Good, Waits, AddWaits
<1>6. ASSUME NEW b \in DOMAIN w.cards PROVE CardWaits(w, b)
  <2>1. b \in DOMAIN v.cards /\ CardWaits(v, b) BY <1>4 DEF Good, Waits
  <2> QED BY <1>3, <1>4, <2>1 DEF CardWaits
<1>7. HeaderDue(v, w) BY <1>3 DEF Good, HeaderDue
<1> QED BY <1>3, <1>4, <1>5, <1>6, <1>7 DEF Pre, Waits

LEMMA HoversSelf == ASSUME NEW u, UiParts(u) PROVE Hovers(u, u)
  BY DEF Hovers

LEMMA MovePre ==
    ASSUME NEW v, Good(v), NEW q, NEW u, NEW w, u = Grid!MouseLeave([v EXCEPT !.at = q], v.at, q),
           \/ q = None /\ w = u
           \/ /\ q # None /\ q = Grid!Place(q.a, q.r, q.part) /\ q.part \in {"row", "preview"}
              /\ q.a \in DOMAIN v.cards /\ v.expanded = None /\ q.r \in DOMAIN Grid!RowsOf(q.a)
              /\ \E opens : w = Grid!MouseEnter(u, v.at, q, opens)
    PROVE  Pre(v, w)
<1> DEFINE o == [v EXCEPT !.at = q]
           p == v.at
<1>1. /\ UiShape(o) /\ o.at = q /\ o.cards = v.cards /\ o.calls = v.calls /\ o.shown = v.shown
  BY DEF Good, UiParts, UiShape, UiFields
<1>2. UiParts(o) BY <1>1 DEF Good, UiParts
<1>3. u = Grid!MouseLeave(o, p, q) OBVIOUS
<1> HIDE DEF o, p
<1>4. \/ p # None /\ Leaves(o, u, p)
      \/ u = o /\ (p = None \/ Grid!SameRow(p, q))
  <2>1. Leaves(o, Grid!scheduleClose(o, p), p) BY <1>2, ScheduleLeaves
  <2> QED BY <1>3, <2>1 DEF Grid!MouseLeave
<1>5. Hovers(o, u) BY <1>2, <1>4, HoversSelf DEF Leaves
<1>6. UiParts(u) /\ DOMAIN u.cards = DOMAIN v.cards BY <1>1, <1>5 DEF Hovers
\* What the row that is left shows, closes.
<1>7. ASSUME NEW b \in DOMAIN v.cards \cap Compressors, NEW r \in GridRows, r \in u.cards[b].previews
      PROVE  \/ r \in u.cards[b].closing
             \/ p # None /\ p.a = b /\ p.r = r /\ Grid!SameRow(p, q)
  <2>1. CASE u = o /\ (p = None \/ Grid!SameRow(p, q))
    <3>1. r \in v.cards[b].previews BY <1>1, <1>7, <2>1
    <3>2. r \in v.cards[b].closing \/ \E part \in {"row", "preview"} : p = Grid!Place(b, r, part)
      BY <3>1 DEF Good, Closes, p
    <3>3. \A part \in {"row", "preview"} :
            LET x == Grid!Place(b, r, part) IN x # None /\ x.a = b /\ x.r = r
      BY AssetsAssumption DEF Grid!Place
    <3> QED BY <1>1, <2>1, <3>2, <3>3
  <2>2. CASE p # None /\ Leaves(o, u, p)
    <3>1. r \in v.cards[b].previews BY <1>1, <1>7, <2>2 DEF Leaves
    <3>2. r \in v.cards[b].closing \/ \E part \in {"row", "preview"} : p = Grid!Place(b, r, part)
      BY <3>1 DEF Good, Closes, p
    <3>3. CASE r \in v.cards[b].closing BY <1>1, <2>2, <3>3 DEF Leaves
    <3>4. CASE \E part \in {"row", "preview"} : p = Grid!Place(b, r, part)
      <4>1. p.a = b /\ p.r = r BY <3>4 DEF Grid!Place
      <4> QED BY <1>1, <1>7, <2>2, <4>1 DEF Leaves
    <3> QED BY <3>2, <3>3, <3>4
  <2> QED BY <1>4, <2>1, <2>2
<1>8. CASE q = None
  <2>1. Hovers(o, w) /\ w = u BY <1>5, <1>8
  <2>2. w.at = q BY <1>1, <2>1 DEF Hovers, UiFields
  <2>3. Closes(w)
    <3>1. \A b \in Compressors, r \in GridRows : None # Grid!Place(b, r, "preview")
      BY AssetsAssumption DEF Grid!Place
    <3>2. ~Grid!SameRow(p, q) BY <1>8 DEF Grid!SameRow
    <3> QED BY <1>6, <1>7, <1>8, <2>1, <2>2, <3>1, <3>2 DEF Closes
  <2>4. OnRow(w) BY <1>8, <2>2 DEF OnRow
  <2> QED BY <1>8, <2>1, <2>3, <2>4, HoverPre DEF o
<1>9. CASE q # None
  <2>1. /\ q = Grid!Place(q.a, q.r, q.part) /\ q.part \in {"row", "preview"}
        /\ q.a \in DOMAIN v.cards /\ v.expanded = None /\ q.r \in DOMAIN Grid!RowsOf(q.a)
        /\ \E opens : w = Grid!MouseEnter(u, p, q, opens)
    BY <1>9 DEF p
  <2>2. Enters(u, w, q) \/ (w = u /\ q.part # "preview")
    <3> DEFINE shown == Grid!ShownFor(u, q)
               kept == Grid!Kept(shown, q)
    <3>1. w \in {u, shown, kept} /\ (q.part = "preview" => w = kept) BY <2>1 DEF Grid!MouseEnter
    <3>2. Enters(u, kept, q) /\ (q.part # "preview" => Enters(u, shown, q)) BY <1>6, ShownEnters
    <3> QED BY <3>1, <3>2
  <2>3. Hovers(o, w) BY <1>5, <2>2, HoversOn DEF Enters
  <2>4. w.at = q /\ DOMAIN w.cards = DOMAIN v.cards BY <1>1, <2>3 DEF Hovers, UiFields
  <2>5. Closes(w)
    <3> SUFFICES ASSUME NEW b \in DOMAIN v.cards \cap Compressors, NEW r \in GridRows
                 PROVE  /\ r \in w.cards[b].previews =>
                             \/ r \in w.cards[b].closing
                             \/ \E part \in {"row", "preview"} : q = Grid!Place(b, r, part)
                        /\ r \in w.cards[b].closing => q # Grid!Place(b, r, "preview")
      BY <2>4 DEF Closes
    <3>1. CASE b = q.a /\ r = q.r
      <4>1. q.part = "preview" => r \notin w.cards[b].closing BY <1>6, <2>2, <3>1 DEF Enters
      <4>2. Grid!Place(b, r, "preview").part = "preview" BY DEF Grid!Place
      <4> QED BY <2>1, <3>1, <4>1, <4>2
    <3>2. CASE ~(b = q.a /\ r = q.r)
      <4>1. /\ r \in w.cards[b].previews <=> r \in u.cards[b].previews
            /\ r \in w.cards[b].closing <=> r \in u.cards[b].closing
        BY <1>6, <2>2, <3>2 DEF Enters
      <4>2. \A part : q # Grid!Place(b, r, part) BY <3>2 DEF Grid!Place
      <4>3. ~(p # None /\ p.a = b /\ p.r = r /\ Grid!SameRow(p, q)) BY <3>2 DEF Grid!SameRow
      <4> QED BY <1>7, <4>1, <4>2, <4>3
    <3> QED BY <3>1, <3>2
  <2>6. OnRow(w) BY <2>1, <2>4 DEF OnRow
  <2> QED BY <2>1, <2>3, <2>5, <2>6, HoverPre DEF o
<1> QED BY <1>8, <1>9

LEMMA TimerPre ==
    ASSUME NEW v, Good(v), NEW a, NEW r
    PROVE  Pre(v, [v EXCEPT !.cards[a].closing = @ \ {r}, !.cards[a].previews = @ \ {r}])
<1> DEFINE kept == v.cards[a].closing \ {r}
           u == [v EXCEPT !.cards[a].closing = kept]
           hid == u.cards[a].previews \ {r}
           w == [u EXCEPT !.cards[a].previews = hid]
<1>0. UiParts(v) /\ Closes(v) /\ OnRow(v) BY DEF Good
<1>1. ClosingSet(v, u, a, kept)
  <2> HIDE DEF kept
  <2> QED BY <1>0, HoverSet
<1>2. UiParts(u) BY <1>1 DEF ClosingSet, Hovers
<1>3. PreviewsSet(u, w, a, hid)
  <2> HIDE DEF hid, u
  <2> QED BY <1>2, HoverSet
<1>4. [v EXCEPT !.cards[a].closing = @ \ {r}, !.cards[a].previews = @ \ {r}] = w
  <2>1. [v EXCEPT !.cards[a].closing = @ \ {r}, !.cards[a].previews = @ \ {r}]
          = [[v EXCEPT !.cards[a].closing = @ \ {r}] EXCEPT !.cards[a].previews = @ \ {r}]
    OBVIOUS
  <2>2. [v EXCEPT !.cards[a].closing = @ \ {r}] = u OBVIOUS
  <2>3. [u EXCEPT !.cards[a].previews = @ \ {r}] = w OBVIOUS
  <2> QED BY <2>1, <2>2, <2>3
<1> HIDE DEF u, w, hid
<1>5. Hovers(v, w) BY <1>1, <1>3, HoversOn DEF ClosingSet, PreviewsSet
<1>6. [v EXCEPT !.at = v.at] = v BY <1>0 DEF UiParts, UiShape, UiFields
<1>7. w.at = v.at /\ DOMAIN w.cards = DOMAIN v.cards /\ DOMAIN u.cards = DOMAIN v.cards
  BY <1>1, <1>5 DEF Hovers, ClosingSet, UiFields
<1>8. ASSUME NEW b \in DOMAIN v.cards
      PROVE  /\ w.cards[b].previews = IF b = a THEN v.cards[b].previews \ {r} ELSE v.cards[b].previews
             /\ w.cards[b].closing = IF b = a THEN v.cards[b].closing \ {r} ELSE v.cards[b].closing
  BY <1>1, <1>3, <1>7 DEF ClosingSet, PreviewsSet, hid
<1>9. Closes(w)
  <2> SUFFICES ASSUME NEW b \in DOMAIN v.cards \cap Compressors, NEW q \in GridRows
               PROVE  /\ q \in w.cards[b].previews =>
                           \/ q \in w.cards[b].closing
                           \/ \E part \in {"row", "preview"} : w.at = Grid!Place(b, q, part)
                      /\ q \in w.cards[b].closing => w.at # Grid!Place(b, q, "preview")
    BY <1>7 DEF Closes
  <2>1. /\ q \in v.cards[b].previews =>
             \/ q \in v.cards[b].closing
             \/ \E part \in {"row", "preview"} : v.at = Grid!Place(b, q, part)
        /\ q \in v.cards[b].closing => v.at # Grid!Place(b, q, "preview")
    BY <1>0 DEF Closes
  <2>2. CASE b = a /\ q = r BY <1>8, <2>2
  <2>3. CASE ~(b = a /\ q = r)
    <3>1. /\ q \in w.cards[b].previews <=> q \in v.cards[b].previews
          /\ q \in w.cards[b].closing <=> q \in v.cards[b].closing
      BY <1>8, <2>3
    <3> QED BY <1>7, <2>1, <3>1
  <2> QED BY <2>2, <2>3
<1>10. OnRow(w) BY <1>0, <1>7 DEF OnRow
<1>11. Hovers([v EXCEPT !.at = v.at], w) BY <1>5, <1>6
<1>12. v.at # None => v.at.a \in DOMAIN v.cards /\ v.expanded = None BY DEF Good
<1> DEFINE q == v.at
<1>13. Hovers([v EXCEPT !.at = q], w) BY <1>11
<1> HIDE DEF q
<1>14. Pre(v, w) BY <1>9, <1>10, <1>12, <1>13, HoverPre DEF q
<1> QED BY <1>4, <1>14

LEMMA BlinkPre ==
    ASSUME NEW v, Good(v), v.at # None, FALSE \in Grid!RowsOf(v.at.a)[v.at.r].there
    PROVE  Pre(v, [v EXCEPT !.at = None])
<1> DEFINE w == [v EXCEPT !.at = None]
<1>1. UiShape(w) /\ w.at = None /\ \A f \in UiFields \ {"at"} : w[f] = v[f]
  BY DEF Good, UiParts, UiShape, UiFields
<1> HIDE DEF w
<1>2. w.cards = v.cards /\ w.calls = v.calls /\ w.shown = v.shown BY <1>1 DEF UiFields
<1>3. UiParts(w) BY <1>1, <1>2 DEF Good, UiParts
<1>4. v.at.a \notin Compressors
  <2>1. SUFFICES ASSUME v.at.a \in Compressors PROVE FALSE OBVIOUS
  <2>2. v.at.a \notin Cnc BY <2>1, AssetsAssumption
  <2>3. v.at.r \in DOMAIN Grid!RowsOf(v.at.a) BY DEF Good, OnRow
  <2> DEFINE rows == [panel |-> Grid!StatusPanelBlock, operation |-> Grid!OperationBlock,
                      psi |-> Grid!PsiBlock, temp |-> Grid!TempBlock]
  <2>4. Grid!RowsOf(v.at.a) = rows BY <2>2 DEF Grid!RowsOf
  <2>5. \A r \in DOMAIN rows : rows[r].there = {TRUE}
    <3>1. Grid!StatusPanelBlock.there = {TRUE} /\ Grid!OperationBlock.there = {TRUE}
      BY DEF Grid!StatusPanelBlock, Grid!OperationBlock
    <3>2. Grid!PsiBlock.there = {TRUE} /\ Grid!TempBlock.there = {TRUE}
      BY DEF Grid!PsiBlock, Grid!TempBlock
    <3>3. DOMAIN rows = {"panel", "operation", "psi", "temp"} OBVIOUS
    <3>4. rows["panel"].there = {TRUE} /\ rows["operation"].there = {TRUE} BY <3>1
    <3>5. rows["psi"].there = {TRUE} /\ rows["temp"].there = {TRUE} BY <3>2
    <3> HIDE DEF rows
    <3> QED BY <3>3, <3>4, <3>5
  <2> HIDE DEF rows
  <2>6. Grid!RowsOf(v.at.a)[v.at.r].there = {TRUE} BY <2>3, <2>4, <2>5
  <2> QED BY <2>6
<1>5. Closes(w)
  <2> SUFFICES ASSUME NEW b \in DOMAIN v.cards \cap Compressors, NEW r \in GridRows
               PROVE  /\ r \in v.cards[b].previews => r \in v.cards[b].closing
                      /\ None # Grid!Place(b, r, "preview")
    BY <1>1, <1>2 DEF Closes
  <2>1. \A part \in {"row", "preview"} : v.at # Grid!Place(b, r, part) /\ None # Grid!Place(b, r, part)
    BY <1>4, AssetsAssumption DEF Grid!Place
  <2> QED BY <2>1 DEF Good, Closes
<1>6. OnRow(w) BY <1>1 DEF OnRow
<1>7. Hovers(w, w) BY <1>3, HoversSelf
<1> QED BY <1>5, <1>6, <1>7, HoverPre DEF w

-----------------------------------------------------------------------------
(* The steps *)

LEMMA PreStep == ASSUME NEW u, Pre(ui, u), Grid!Becomes(u) \/ Grid!Click(u) PROVE Good(ui')
<1>1. ui' = Grid!Settle(ui, u) BY DEF Grid!Becomes, Grid!Click
<1> QED BY <1>1, SettleCompletes

LEMMA TameStep == ASSUME Good(ui), NEW u, Tame(ui, u), Grid!Becomes(u) \/ Grid!Click(u) PROVE Good(ui')
<1>1. Pre(ui, u) BY GoodPre, TamePre
<1> QED BY <1>1, PreStep

LEMMA DashboardStep == GridInv /\ Grid!DashboardNext => GridInv'
<1> SUFFICES ASSUME GridInv PROVE Grid!DashboardNext => GridInv'
  OBVIOUS
<1>0. Good(ui) /\ UiParts(ui) /\ DOMAIN polled \subseteq Grid!Assets BY DEF GridInv, Good
<1>c. Tame(ui, Grid!Collapsed(ui)) BY <1>0, CollapsedTame
<1>e. ASSUME NEW a \in DOMAIN ui.shown, ui.there, ui.expanded # a,
             Grid!Click([ui EXCEPT !.expanded = a])
      PROVE  Good(ui')
  BY <1>0, <1>e, ExpandPre, PreStep
<1>1. ASSUME Grid!CollapseAll PROVE GridInv'
  <2> DEFINE x == (ui.collapse \ Grid!Kind(ui.editing)) \cup {ui.editing}
             u == [ui EXCEPT !.collapse = x]
  <2>1. Tame(ui, u)
    <3> HIDE DEF x
    <3> QED BY <1>0, FieldTame
  <2>2. Grid!Click(IF ui.editing # None THEN u ELSE Grid!Collapsed(ui)) BY <1>1 DEF Grid!CollapseAll
  <2> HIDE DEF u
  <2>3. Good(ui') BY <1>0, <1>c, <2>1, <2>2, TameStep
  <2> QED BY <1>0, <2>2, <2>3 DEF GridInv, Grid!Click
<1>2. ASSUME Grid!HeaderCollapse PROVE GridInv'
  <2>1. Good(ui') BY <1>0, <1>c, <1>2, TameStep DEF Grid!HeaderCollapse
  <2> QED BY <1>0, <1>2, <2>1 DEF GridInv, Grid!HeaderCollapse, Grid!Click
<1>3. ASSUME Grid!ToggleLayoutEdit PROVE GridInv'
  <2> DEFINE x == ~ui.layout
  <2>1. Grid!Click([ui EXCEPT !.layout = x]) BY <1>3 DEF Grid!ToggleLayoutEdit
  <2>2. Tame(ui, [ui EXCEPT !.layout = x])
    <3> HIDE DEF x
    <3> QED BY <1>0, FieldTame
  <2>3. Good(ui') BY <1>0, <2>1, <2>2, TameStep
  <2> QED BY <1>0, <2>1, <2>3 DEF GridInv, Grid!Click
<1>4. ASSUME NEW a, Grid!PopupClick(a) PROVE GridInv'
  <2>1. Good(ui') BY <1>4, <1>e DEF Grid!PopupClick
  <2> QED BY <1>0, <1>4, <2>1 DEF GridInv, Grid!PopupClick, Grid!Click
<1>5. ASSUME NEW a, Grid!handleCardClick(a) PROVE GridInv'
  <2>1. a \in DOMAIN ui.shown /\ ui.there BY <1>0, <1>5 DEF Good, Grid!handleCardClick, Grid!Mounted
  <2>2. CASE ui.expanded = a
    <3>1. Grid!Click(Grid!Collapsed(ui)) BY <1>5, <2>2 DEF Grid!handleCardClick
    <3>2. Good(ui') BY <1>0, <1>c, <3>1, TameStep
    <3> QED BY <1>0, <3>1, <3>2 DEF GridInv, Grid!Click
  <2>3. CASE ui.expanded # a
    <3>1. Grid!Click([ui EXCEPT !.expanded = a]) BY <1>5, <2>3 DEF Grid!handleCardClick
    <3>2. Good(ui') BY <1>e, <2>1, <2>3, <3>1
    <3> QED BY <1>0, <3>1, <3>2 DEF GridInv, Grid!Click
  <2> QED BY <2>2, <2>3
<1>6. ASSUME NEW a, Grid!handleDelete(a) PROVE GridInv'
  <2> DEFINE u == [ui EXCEPT !.target = a]
             w == [u EXCEPT !.asked = TRUE]
  <2>1. Grid!Click(w) BY <1>6 DEF Grid!handleDelete
  <2>2. Tame(ui, u) BY <1>0, FieldTame
  <2>3. Tame(u, w)
    <3> HIDE DEF u
    <3> QED BY <2>2, FieldTame, TameParts
  <2>4. Tame(ui, w) BY <2>2, <2>3, TameOn
  <2>5. Good(ui') BY <1>0, <2>1, <2>4, TameStep
  <2> QED BY <1>0, <2>1, <2>5 DEF GridInv, Grid!Click
<1>7. ASSUME Grid!DismissDelete PROVE GridInv'
  <2> DEFINE u == [ui EXCEPT !.asked = FALSE]
  <2>1. PICK w \in {u} \cup Grid!Escaped(u) : Grid!Click(w) BY <1>7 DEF Grid!DismissDelete
  <2>2. Tame(ui, u) BY <1>0, FieldTame
  <2> HIDE DEF u
  <2>3. UiParts(u) BY <2>2, TameParts
  <2>4. /\ Tame(u, u) /\ Tame(u, Grid!Collapsed(u)) /\ Tame(u, Grid!AskOrCancel(u, u.editing))
        /\ \A a : Tame(u, Grid!performEditCancel(u, a))
    BY <2>3, TameSelf, CollapsedTame, AskOrCancelTame, CancelTame
  <2>5. Tame(u, w)
    <3>1. \/ w \in {u, Grid!AskOrCancel(u, u.editing), Grid!Collapsed(u)}
          \/ \E a : w = Grid!performEditCancel(u, a)
      BY <2>1 DEF Grid!Escaped
    <3> QED BY <2>4, <3>1
  <2>6. Tame(ui, w) BY <2>2, <2>5, TameOn
  <2>7. Good(ui') BY <1>0, <2>1, <2>6, TameStep
  <2> QED BY <1>0, <2>1, <2>7 DEF GridInv, Grid!Click
<1>8. ASSUME Grid!confirmDelete PROVE GridInv'
  <2> DEFINE c == [kind |-> "delete", a |-> ui.target, alive |-> TRUE,
                   collapses |-> ui.target \in Compressors /\ ui.expanded = ui.target]
  <2>1. CallShape(c)
    <3>1. DOMAIN c = {"kind", "a", "alive", "collapses"} /\ c.alive = TRUE OBVIOUS
    <3>2. c = [k \in DOMAIN c |-> c[k]] OBVIOUS
    <3> QED BY <3>1, <3>2 DEF CallShape
  <2>2. Grid!Click(Grid!Ask(ui, c)) BY <1>8 DEF Grid!confirmDelete
  <2> HIDE DEF c
  <2>3. Tame(ui, Grid!Ask(ui, c)) BY <1>0, <2>1, AskTame
  <2>4. Good(ui') BY <1>0, <2>2, <2>3, TameStep
  <2> QED BY <1>0, <2>2, <2>4 DEF GridInv, Grid!Click
<1>9. ASSUME Grid!Leave PROVE GridInv'
  <2> DEFINE u == [ui EXCEPT !.there = FALSE, !.expanded = None, !.editing = None, !.collapse = {},
                        !.target = None, !.calls = {c \in @ : c.kind # "saved"}]
  <2>1. Pre(ui, u) BY <1>0, LeavePre
  <2>2. Grid!Click(u) BY <1>9 DEF Grid!Leave
  <2> HIDE DEF u
  <2>3. Good(ui') BY <2>1, <2>2, PreStep
  <2> QED BY <1>0, <2>2, <2>3 DEF GridInv, Grid!Click
<1>10. ASSUME Grid!Return PROVE GridInv'
  <2> DEFINE u == [ui EXCEPT !.there = TRUE]
  <2>1. Pre(ui, u) BY <1>0, <1>10, LeavePre DEF Grid!Return
  <2>2. Grid!Click(u) BY <1>10 DEF Grid!Return
  <2> HIDE DEF u
  <2>3. Good(ui') BY <2>1, <2>2, PreStep
  <2> QED BY <1>0, <2>2, <2>3 DEF GridInv, Grid!Click
<1>11. ASSUME NEW c \in ui.calls, Grid!DeleteArrives(c) PROVE GridInv'
  <2> DEFINE n == Grid!Answered(ui, c)
             s == Grid!Restrict(n.shown, DOMAIN n.shown \ {c.a})
             t == [n EXCEPT !.asked = FALSE]
             r == [t EXCEPT !.target = None]
             u == [r EXCEPT !.shown = s]
  <2>1. /\ c.kind = "delete" /\ polled' = polled
        /\ (Grid!Becomes(n) \/ Grid!Becomes(IF c.collapses THEN Grid!Collapsed(u) ELSE u))
    BY <1>11 DEF Grid!DeleteArrives
  <2>2. Tame(ui, n) BY <1>0, <2>1, AnsweredTame DEF Awaited
  <2>3. DOMAIN s \subseteq Grid!Assets BY <2>2 DEF Tame, UiParts, Grid!Restrict
  <2> HIDE DEF n, s
  <2>4. Tame(n, t) BY <2>2, FieldTame, TameParts
  <2> HIDE DEF t
  <2>5. Tame(t, r) BY <2>4, FieldTame, TameParts
  <2> HIDE DEF r
  <2>6. Tame(ui, r) BY <2>2, <2>4, <2>5, TameOn
  <2>7. Pre(ui, u) BY <1>0, <2>3, <2>6, ShownPre
  <2> HIDE DEF u
  <2>8. Pre(ui, Grid!Collapsed(u)) BY <2>7, CollapsedTame, TamePre DEF Pre
  <2>9. Good(ui') BY <1>0, <2>1, <2>2, <2>7, <2>8, PreStep, TameStep
  <2> QED BY <1>0, <2>1, <2>9 DEF GridInv
<1>12. ASSUME NEW a \in Grid!Assets, Grid!Poll(a) PROVE GridInv'
  <2>1. ui' = ui BY <1>12 DEF Grid!Poll
  <2>2. DOMAIN polled' \subseteq DOMAIN polled \cup {a} BY <1>12 DEF Grid!Poll, Grid!With, Grid!Restrict
  <2> QED BY <1>0, <2>1, <2>2 DEF GridInv
<1>13. ASSUME NEW a \in Grid!Assets, Grid!StatusUpdate(a) PROVE GridInv'
  <2> DEFINE s == Grid!With(ui.shown, a, polled[a])
  <2>1. Grid!Becomes([ui EXCEPT !.shown = s]) /\ polled' = polled BY <1>13 DEF Grid!StatusUpdate
  <2>2. DOMAIN s \subseteq Grid!Assets BY <1>0 DEF UiParts, Grid!With
  <2> HIDE DEF s
  <2>3. Pre(ui, [ui EXCEPT !.shown = s]) BY <1>0, <2>2, ShownPre, TameSelf
  <2>4. Good(ui') BY <2>1, <2>3, PreStep
  <2> QED BY <1>0, <2>1, <2>4 DEF GridInv
<1>14. ASSUME Grid!InitialStatus PROVE GridInv'
  <2>1. Grid!Becomes([ui EXCEPT !.shown = polled]) /\ polled' = polled BY <1>14 DEF Grid!InitialStatus
  <2>3. Pre(ui, [ui EXCEPT !.shown = polled]) BY <1>0, ShownPre, TameSelf
  <2>4. Good(ui') BY <2>1, <2>3, PreStep
  <2> QED BY <1>0, <2>1, <2>4 DEF GridInv
<1> QED BY <1>1, <1>2, <1>3, <1>4, <1>5, <1>6, <1>7, <1>8, <1>9, <1>10, <1>11, <1>12, <1>13, <1>14
         DEF Grid!DashboardNext

\* What both kinds of cards do.
LEMMA CardSteps ==
    ASSUME Good(ui), NEW a
    PROVE  /\ Tame(ui, Grid!NotCollapsing(ui, a))
           /\ Tame(ui, Grid!CompressorNotCollapsing(ui, a))
           /\ Tame(ui, Grid!AskOrCancel(Grid!NotCollapsing(ui, a), a))
           /\ Tame(ui, Grid!AskOrCancel(Grid!CompressorNotCollapsing(ui, a), a))
           /\ Tame(ui, [Grid!performEditCancel(ui, a) EXCEPT !.cards[a].dialog = FALSE])
<1> DEFINE x == IF a \in ui.collapse THEN ui.collapse \ Grid!Kind(a) ELSE ui.collapse
           d == [ui EXCEPT !.cards[a].dialog = FALSE]
           n == [d EXCEPT !.collapse = x]
           p == Grid!performEditCancel(ui, a)
<1>0. UiParts(ui) BY DEF Good
<1>1. Tame(ui, d) BY <1>0, CardTame
<1>2. Grid!NotCollapsing(ui, a) = n /\ Grid!CompressorNotCollapsing(ui, a) = n
  <2>1. n = [ui EXCEPT !.cards[a].dialog = FALSE, !.collapse = x] OBVIOUS
  <2>2. /\ Grid!NotCollapsing(ui, a) = [ui EXCEPT !.cards[a].dialog = FALSE, !.collapse = x]
        /\ Grid!CompressorNotCollapsing(ui, a) = [ui EXCEPT !.cards[a].dialog = FALSE, !.collapse = x]
    BY <1>0 DEF Grid!NotCollapsing, Grid!CompressorNotCollapsing, UiParts, UiShape, UiFields
  <2> QED BY <2>1, <2>2
<1> HIDE DEF x, d
<1>3. Tame(d, n) BY <1>1, FieldTame, TameParts
<1> HIDE DEF n
<1>4. Tame(ui, n) BY <1>1, <1>3, TameOn
<1>5. Tame(n, Grid!AskOrCancel(n, a)) BY <1>4, AskOrCancelTame, TameParts
<1>6. Tame(ui, Grid!AskOrCancel(n, a)) BY <1>4, <1>5, TameOn
<1>7. Tame(ui, p) BY <1>0, CancelTame
<1> HIDE DEF p
<1>8. Tame(p, [p EXCEPT !.cards[a].dialog = FALSE]) BY <1>7, CardTame, TameParts
<1>9. Tame(ui, [p EXCEPT !.cards[a].dialog = FALSE]) BY <1>7, <1>8, TameOn
<1> QED BY <1>2, <1>4, <1>6, <1>9 DEF p

LEMMA ClickKeeps ==
    ASSUME GridInv, NEW u, Grid!Click(u), Pre(ui, u) \/ Tame(ui, u)
    PROVE  GridInv'
<1>1. Good(ui') BY PreStep, TameStep DEF GridInv
<1> QED BY <1>1 DEF GridInv, Grid!Click

LEMMA BecomesKeeps ==
    ASSUME GridInv, NEW u, Grid!Becomes(u), polled' = polled, Pre(ui, u) \/ Tame(ui, u)
    PROVE  GridInv'
<1>1. Good(ui') BY PreStep, TameStep DEF GridInv
<1> QED BY <1>1 DEF GridInv

LEMMA MachineStep == GridInv /\ Grid!MachineNext => GridInv'
<1> SUFFICES ASSUME GridInv PROVE Grid!MachineNext => GridInv'
  OBVIOUS
<1>0. Good(ui) /\ UiParts(ui) /\ Pre(ui, ui) BY GoodPre DEF GridInv, Good
<1>1. ASSUME NEW a, Grid!startEditing(a) PROVE GridInv'
  <2>1. Tame(ui, [ui EXCEPT !.editing = a]) BY <1>0, FieldTame
  <2> QED BY <1>1, <2>1, ClickKeeps DEF Grid!startEditing
<1>2. ASSUME NEW a, Grid!handleEditSave(a) PROVE GridInv'
  <2>1. Pre(ui, Grid!Saving(ui, a)) BY <1>0, SavingPre
  <2> QED BY <1>2, <2>1, ClickKeeps DEF Grid!handleEditSave
<1>3. ASSUME NEW a, Grid!handleEditCancel(a) PROVE GridInv'
  <2>1. Tame(ui, Grid!AskOrCancel(ui, a)) BY <1>0, AskOrCancelTame
  <2> QED BY <1>3, <2>1, ClickKeeps DEF Grid!handleEditCancel
<1>4. ASSUME NEW a, Grid!handleEditTestConnection(a) PROVE GridInv'
  <2> DEFINE c == [kind |-> "test", a |-> a, alive |-> TRUE]
             asked == Grid!Ask(ui, c)
             u == [asked EXCEPT !.cards[c.a].testing = TRUE]
  <2>1. CallShape(c) /\ c.kind = "test" /\ c.a = a
    <3>1. DOMAIN c = {"kind", "a", "alive"} /\ c.alive = TRUE /\ c.kind = "test" /\ c.a = a OBVIOUS
    <3>2. c = [k \in DOMAIN c |-> c[k]] OBVIOUS
    <3> QED BY <3>1, <3>2 DEF CallShape
  <2>2. Grid!Click(Grid!Ask([ui EXCEPT !.cards[a].testing = TRUE], c)) BY <1>4 DEF Grid!handleEditTestConnection
  <2> HIDE DEF c
  <2>3. Pre(ui, u) BY <1>0, <2>1, AskedPre
  <2>4. Grid!Ask([ui EXCEPT !.cards[a].testing = TRUE], c) = u
    BY <1>0, <2>1 DEF Grid!Ask, UiParts, UiShape, UiFields
  <2> HIDE DEF u
  <2> QED BY <2>2, <2>3, <2>4, ClickKeeps
<1>5. ASSUME NEW a, Grid!EscapeMachine(a) PROVE GridInv'
  <2>1. Tame(ui, Grid!Collapsed(ui)) BY <1>0, CollapsedTame
  <2> QED BY <1>5, <2>1, ClickKeeps DEF Grid!EscapeMachine
<1>6. ASSUME NEW a, Grid!KeepEditing(a) PROVE GridInv'
  BY <1>0, <1>6, CardSteps, ClickKeeps DEF Grid!KeepEditing
<1>7. ASSUME NEW a, Grid!DiscardEdits(a) PROVE GridInv'
  <2> DEFINE u == [Grid!performEditCancel(ui, a) EXCEPT !.cards[a].dialog = FALSE]
  <2>1. Tame(ui, u) BY <1>0, CardSteps
  <2>2. Grid!Click(u) BY <1>7 DEF Grid!DiscardEdits
  <2> HIDE DEF u
  <2> QED BY <2>1, <2>2, ClickKeeps
<1>8. ASSUME NEW a, Grid!SaveEdits(a) PROVE GridInv'
  <2> DEFINE n == Grid!NotCollapsing(ui, a)
  <2>1. Tame(ui, n) BY <1>0, CardSteps
  <2>2. Pre(ui, n) BY <1>0, <2>1, TamePre
  <2>3. Grid!Click(n) \/ Grid!Click(Grid!Saving(n, a)) BY <1>8 DEF Grid!SaveEdits
  <2> HIDE DEF n
  <2>4. Pre(ui, Grid!Saving(n, a)) BY <2>2, SavingPre
  <2> QED BY <2>2, <2>3, <2>4, ClickKeeps
<1>9. ASSUME NEW a, NEW v, Grid!TypeMachine(a, v) PROVE GridInv'
  <2>1. Tame(ui, [ui EXCEPT !.cards[a].form = v]) BY <1>0, CardTame
  <2> QED BY <1>9, <2>1, ClickKeeps DEF Grid!TypeMachine
<1>10. ASSUME NEW c \in ui.calls, Grid!ConfigArrives(c) PROVE GridInv'
  <2> DEFINE n == Grid!Answered(ui, c)
             a == c.a
             x == server[c.a]
             f == [n EXCEPT !.cards[a].form = x]
             u == [f EXCEPT !.cards[a].base = x]
  <2>1. polled' = polled /\ (Grid!Becomes(u) \/ Grid!Becomes(n)) BY <1>10 DEF Grid!ConfigArrives
  <2>2. Tame(ui, n) BY <1>0, <1>10, AnsweredTame DEF Awaited, Grid!ConfigArrives
  <2> HIDE DEF n, a, x
  <2>3. Tame(n, f) BY <2>2, CardTame, TameParts
  <2> HIDE DEF f
  <2>4. Tame(f, u) BY <2>3, CardTame, TameParts
  <2> HIDE DEF u
  <2>5. Tame(ui, u) BY <2>2, <2>3, <2>4, TameOn
  <2> QED BY <2>1, <2>2, <2>5, BecomesKeeps
<1>11. ASSUME NEW c \in ui.calls, Grid!SaveArrives(c) PROVE GridInv'
  <2> DEFINE n == Grid!Answered(ui, c)
             a == c.a
             u == IF c.alive THEN [n EXCEPT !.cards[a].saving = FALSE] ELSE n
             f == IF c.alive THEN [u EXCEPT !.cards[a].success = TRUE] ELSE u
             d == [c EXCEPT !.kind = "saved"]
  <2>1. polled' = polled /\ (Grid!Becomes(u) \/ Grid!Becomes(Grid!Ask(f, d))) BY <1>11 DEF Grid!SaveArrives
  <2>2. c.kind = "put" /\ CallShape(c) BY <1>0, <1>11 DEF Grid!SaveArrives, UiParts
  <2>3. Pre(ui, u)
    <3>1. CASE c.alive BY <1>0, <2>2, <3>1, AnsweredPre
    <3>2. CASE ~c.alive
      <4>1. Tame(ui, n) BY <1>0, <2>2, <3>2, AnsweredTame DEF Awaited
      <4> QED BY <1>0, <3>2, <4>1, TamePre
    <3> QED BY <3>1, <3>2
  <2>4. CallShape(d)
    <3>1. d = [k \in DOMAIN c |-> IF k = "kind" THEN "saved" ELSE c[k]] BY <2>2 DEF CallShape
    <3>2. DOMAIN d = DOMAIN c /\ d.alive = c.alive BY <2>2, <3>1 DEF CallShape
    <3> QED BY <2>2, <3>1, <3>2 DEF CallShape
  <2> HIDE DEF u, a, d, n
  <2>5. Pre(ui, f)
    <3>1. Tame(u, [u EXCEPT !.cards[a].success = TRUE]) BY <2>3, CardTame DEF Pre
    <3> QED BY <2>3, <3>1, TamePre
  <2> HIDE DEF f
  <2>6. Tame(f, Grid!Ask(f, d)) BY <2>4, <2>5, AskTame DEF Pre
  <2>7. Pre(ui, Grid!Ask(f, d)) BY <2>5, <2>6, TamePre
  <2> QED BY <2>1, <2>3, <2>7, BecomesKeeps
<1>12. ASSUME NEW c \in ui.calls, Grid!SavedTimer(c) PROVE GridInv'
  <2> DEFINE n == Grid!Answered(ui, c)
             u == Grid!EditEnd(n, c.a, c.collapses)
             a == c.a
             w == [u EXCEPT !.cards[a].success = FALSE]
  <2>1. polled' = polled /\ Grid!Becomes(IF c.alive THEN w ELSE u) BY <1>12 DEF Grid!SavedTimer
  <2>2. Tame(ui, n) BY <1>0, <1>12, AnsweredTame DEF Awaited, Grid!SavedTimer
  <2> HIDE DEF n
  <2>3. Tame(n, u) BY <2>2, EditEndTame, TameParts
  <2> HIDE DEF u, a
  <2>4. Tame(u, w) BY <2>3, CardTame, TameParts
  <2> HIDE DEF w
  <2>5. Tame(ui, u) /\ Tame(ui, w) BY <2>2, <2>3, <2>4, TameOn
  <2> QED BY <2>1, <2>5, BecomesKeeps
<1>13. ASSUME NEW c \in ui.calls, Grid!TestArrives(c) PROVE GridInv'
  <2> DEFINE u == [Grid!Answered(ui, c) EXCEPT !.cards[c.a].testing = FALSE]
  <2>1. polled' = polled /\ Grid!Becomes(u) BY <1>13 DEF Grid!TestArrives
  <2>2. Pre(ui, u) BY <1>0, <1>13, AnsweredPre DEF Grid!TestArrives
  <2> HIDE DEF u
  <2> QED BY <2>1, <2>2, BecomesKeeps
<1> QED BY <1>1, <1>2, <1>3, <1>4, <1>5, <1>6, <1>7, <1>8, <1>9, <1>10, <1>11, <1>12, <1>13
         DEF Grid!MachineNext

LEMMA CompressorStep == GridInv /\ Grid!CompressorNext => GridInv'
<1> SUFFICES ASSUME GridInv PROVE Grid!CompressorNext => GridInv'
  OBVIOUS
<1>0. Good(ui) /\ UiParts(ui) /\ Pre(ui, ui) BY GoodPre DEF GridInv, Good
<1>1. ASSUME NEW a, Grid!compressorStartEditing(a) PROVE GridInv'
  <2>1. Tame(ui, [ui EXCEPT !.editing = a]) BY <1>0, FieldTame
  <2> QED BY <1>1, <2>1, ClickKeeps DEF Grid!compressorStartEditing
<1>2. ASSUME NEW a, Grid!compressorHandleEditSave(a) PROVE GridInv'
  <2>1. Pre(ui, Grid!SavingCompressor(ui, a)) BY <1>0, SavingPre
  <2> QED BY <1>2, <2>1, ClickKeeps DEF Grid!compressorHandleEditSave
<1>3. ASSUME NEW a, Grid!compressorHandleEditCancel(a) \/ Grid!EscapeForm(a) PROVE GridInv'
  <2>1. Tame(ui, Grid!AskOrCancel(ui, a)) /\ Tame(ui, Grid!performEditCancel(ui, a))
    BY <1>0, AskOrCancelTame, CancelTame
  <2> QED BY <1>3, <2>1, ClickKeeps DEF Grid!compressorHandleEditCancel, Grid!EscapeForm
<1>4. ASSUME NEW a, Grid!EscapeCompressor(a) PROVE GridInv'
  <2>1. Tame(ui, Grid!Collapsed(ui)) BY <1>0, CollapsedTame
  <2> QED BY <1>4, <2>1, ClickKeeps DEF Grid!EscapeCompressor
<1>5. ASSUME NEW a, Grid!CompressorKeepEditing(a) PROVE GridInv'
  BY <1>0, <1>5, CardSteps, ClickKeeps DEF Grid!CompressorKeepEditing
<1>6. ASSUME NEW a, Grid!CompressorDiscardEdits(a) PROVE GridInv'
  <2> DEFINE u == [Grid!performEditCancel(ui, a) EXCEPT !.cards[a].dialog = FALSE]
  <2>1. Tame(ui, u) BY <1>0, CardSteps
  <2>2. Grid!Click(u) BY <1>6 DEF Grid!CompressorDiscardEdits
  <2> HIDE DEF u
  <2> QED BY <2>1, <2>2, ClickKeeps
<1>7. ASSUME NEW a, Grid!CompressorSaveEdits(a) PROVE GridInv'
  <2> DEFINE n == Grid!CompressorNotCollapsing(ui, a)
  <2>1. Tame(ui, n) BY <1>0, CardSteps
  <2>2. Pre(ui, n) BY <1>0, <2>1, TamePre
  <2>3. Grid!Click(Grid!SavingCompressor(n, a)) BY <1>7 DEF Grid!CompressorSaveEdits
  <2> HIDE DEF n
  <2>4. Pre(ui, Grid!SavingCompressor(n, a)) BY <2>2, SavingPre
  <2> QED BY <2>3, <2>4, ClickKeeps
<1>8. ASSUME NEW a, NEW v, Grid!TypeCompressor(a, v) PROVE GridInv'
  <2>1. Tame(ui, [ui EXCEPT !.cards[a].form = v]) BY <1>0, CardTame
  <2> QED BY <1>8, <2>1, ClickKeeps DEF Grid!TypeCompressor
<1>9. ASSUME NEW c \in ui.calls, Grid!CompressorSaveArrives(c) PROVE GridInv'
  <2> DEFINE n == Grid!Answered(ui, c)
             u == IF c.alive THEN [n EXCEPT !.cards[c.a].saving = FALSE] ELSE n
             w == Grid!EditEnd(u, c.a, c.collapses)
  <2>1. polled' = polled /\ (Grid!Becomes(u) \/ Grid!Becomes(w)) BY <1>9 DEF Grid!CompressorSaveArrives
  <2>2. c.kind = "put" BY <1>9 DEF Grid!CompressorSaveArrives
  <2>3. Pre(ui, u)
    <3>1. CASE c.alive BY <1>0, <2>2, <3>1, AnsweredPre
    <3>2. CASE ~c.alive
      <4>1. Tame(ui, n) BY <1>0, <2>2, <3>2, AnsweredTame DEF Awaited
      <4> QED BY <1>0, <3>2, <4>1, TamePre
    <3> QED BY <3>1, <3>2
  <2> HIDE DEF u
  <2>4. Tame(u, w) BY <2>3, EditEndTame DEF Pre
  <2> HIDE DEF w
  <2>5. Pre(ui, w) BY <2>3, <2>4, TamePre
  <2> QED BY <2>1, <2>3, <2>5, BecomesKeeps
<1> QED BY <1>1, <1>2, <1>3, <1>4, <1>5, <1>6, <1>7, <1>8, <1>9 DEF Grid!CompressorNext

LEMMA AddStep == GridInv /\ Grid!AddNext => GridInv'
<1> SUFFICES ASSUME GridInv PROVE Grid!AddNext => GridInv'
  OBVIOUS
<1>0. Good(ui) /\ UiParts(ui) BY DEF GridInv, Good
<1>1. ASSUME NEW kind_, Grid!StartAdd(kind_) PROVE GridInv'
  <2>1. Pre(ui, [ui EXCEPT !.adding = kind_]) BY <1>0, <1>1, AddPre DEF Grid!StartAdd
  <2> QED BY <1>1, <2>1, ClickKeeps DEF Grid!StartAdd
<1>2. ASSUME Grid!CancelAdd PROVE GridInv'
  <2>1. Pre(ui, [ui EXCEPT !.adding = None]) BY <1>0, <1>2, AddPre DEF Grid!CancelAdd
  <2> QED BY <1>2, <2>1, ClickKeeps DEF Grid!CancelAdd
<1>3. ASSUME NEW kind_ \in {"cnc", "compressor"}, Grid!SaveAdd(kind_) PROVE GridInv'
  <2> DEFINE u == Grid!Ask([ui EXCEPT !.addSaving = TRUE], [kind |-> "post", a |-> kind_, alive |-> TRUE])
  <2>1. ui.adding # None BY <1>0, <1>3, AssetsAssumption DEF Grid!SaveAdd
  <2>2. Pre(ui, u) BY <1>0, <2>1, SaveAddPre
  <2>3. Grid!Click(u) BY <1>3 DEF Grid!SaveAdd
  <2> HIDE DEF u
  <2> QED BY <2>2, <2>3, ClickKeeps
<1>4. ASSUME NEW c \in ui.calls, NEW new \in Grid!Assets, Grid!AddArrives(c, new) PROVE GridInv'
  <2> DEFINE n == Grid!Answered(ui, c)
             u == IF c.alive THEN [n EXCEPT !.addSaving = FALSE] ELSE n
             s == Grid!With(u.shown, new, 1)
             w == [u EXCEPT !.shown = s, !.adding = IF c.alive THEN None ELSE @]
  <2>1. /\ c.kind = "post" /\ polled' = polled
        /\ Grid!Becomes(w) \/ Grid!Becomes(u)
    BY <1>4 DEF Grid!AddArrives
  <2>2. c.alive \in BOOLEAN BY <1>0 DEF UiParts, CallShape
  <2>3. DOMAIN s \subseteq Grid!Assets
    <3>1. u.shown = ui.shown BY <1>0 DEF UiParts, UiShape, UiFields, Grid!Answered
    <3> QED BY <1>0, <3>1 DEF UiParts, Grid!With
  <2>4. u = IF c.alive THEN [Grid!Answered(ui, c) EXCEPT !.addSaving = FALSE] ELSE Grid!Answered(ui, c)
    OBVIOUS
  <2> HIDE DEF u, s
  <2>5. Pre(ui, w) /\ Pre(ui, u) BY <1>0, <2>1, <2>2, <2>3, <2>4, AddArrivesPre
  <2> HIDE DEF w
  <2> QED BY <2>1, <2>5, BecomesKeeps
<1> QED BY <1>1, <1>2, <1>3, <1>4 DEF Grid!AddNext

LEMMA PreviewStep == GridInv /\ Grid!PreviewNext => GridInv'
<1> SUFFICES ASSUME GridInv PROVE Grid!PreviewNext => GridInv'
  OBVIOUS
<1>0. Good(ui) /\ UiParts(ui) BY DEF GridInv, Good
<1>1. ASSUME Grid!MouseMoves(None) PROVE GridInv'
  <2> DEFINE u == Grid!MouseLeave([ui EXCEPT !.at = None], ui.at, None)
  <2>1. Grid!Becomes(u) /\ polled' = polled BY <1>1 DEF Grid!MouseMoves
  <2>2. Pre(ui, u) BY <1>0, MovePre
  <2> HIDE DEF u
  <2> QED BY <2>1, <2>2, BecomesKeeps
<1>2. ASSUME NEW a \in DOMAIN ui.cards, NEW r \in GridRows \cap DOMAIN Grid!RowsOf(a),
             NEW part \in {"row", "preview"}, Grid!MouseMoves(Grid!Place(a, r, part))
      PROVE  GridInv'
  <2> DEFINE q == Grid!Place(a, r, part)
             u == Grid!MouseLeave([ui EXCEPT !.at = q], ui.at, q)
  <2>1. q = Grid!Place(q.a, q.r, q.part) /\ q.a = a /\ q.r = r /\ q.part = part BY DEF Grid!Place
  <2>2. q # None
    <3>1. a \in Cnc \cup Compressors BY <1>0 DEF Good, UiParts, Grid!Mounted, Grid!Assets
    <3> QED BY <3>1, AssetsAssumption DEF Grid!Place
  <2>3. /\ ui.expanded = None /\ polled' = polled
        /\ \E opens : Grid!Becomes(Grid!MouseEnter(u, ui.at, q, opens))
    <3> HIDE DEF q
    <3> QED BY <1>2, <2>2 DEF Grid!MouseMoves, q
  <2>4. PICK opens : Grid!Becomes(Grid!MouseEnter(u, ui.at, q, opens)) BY <2>3
  <2> DEFINE w == Grid!MouseEnter(u, ui.at, q, opens)
  <2> HIDE DEF q
  <2>5. u = Grid!MouseLeave([ui EXCEPT !.at = q], ui.at, q) /\ \E x : w = Grid!MouseEnter(u, ui.at, q, x)
    OBVIOUS
  <2>6. Grid!Becomes(w) BY <2>4
  <2> HIDE DEF u, w
  <2>7. Pre(ui, w) BY <1>0, <1>2, <2>1, <2>2, <2>3, <2>5, MovePre
  <2> QED BY <2>3, <2>6, <2>7, BecomesKeeps
<1>3. ASSUME NEW a, NEW r, Grid!PreviewTimer(a, r) PROVE GridInv'
  <2> DEFINE u == [ui EXCEPT !.cards[a].closing = @ \ {r}, !.cards[a].previews = @ \ {r}]
  <2>1. Grid!Becomes(u) /\ polled' = polled BY <1>3 DEF Grid!PreviewTimer
  <2>2. Pre(ui, u) BY <1>0, TimerPre
  <2> HIDE DEF u
  <2> QED BY <2>1, <2>2, BecomesKeeps
<1>4. ASSUME Grid!RowClick PROVE GridInv'
  <2> DEFINE a == ui.at.a
             u == [ui EXCEPT !.expanded = a]
  <2>1. ui.at # None /\ Grid!Becomes(u) /\ polled' = polled BY <1>4 DEF Grid!RowClick
  <2>2. a \in DOMAIN ui.cards /\ ui.expanded = None BY <1>0, <2>1 DEF Good
  <2>3. a \in DOMAIN ui.shown /\ ui.there BY <1>0, <2>2 DEF Good, Grid!Mounted
  <2>4. ui.expanded # a BY <1>0, <2>2, <2>3, AssetsAssumption DEF UiParts, Grid!Assets
  <2> HIDE DEF a
  <2>5. Pre(ui, u) BY <1>0, <2>3, <2>4, ExpandPre
  <2> HIDE DEF u
  <2> QED BY <2>1, <2>5, BecomesKeeps
<1>5. ASSUME Grid!RowBlinks PROVE GridInv'
  <2>1. Pre(ui, [ui EXCEPT !.at = None]) BY <1>0, <1>5, BlinkPre DEF Grid!RowBlinks
  <2> QED BY <1>5, <2>1, BecomesKeeps DEF Grid!RowBlinks
<1> QED BY <1>1, <1>2, <1>3, <1>4, <1>5 DEF Grid!PreviewNext

-----------------------------------------------------------------------------
(* The dashboard always *)

LEMMA GridStarts == Grid!Init => GridInv
<1> SUFFICES ASSUME Grid!Init PROVE GridInv
  OBVIOUS
<1> DEFINE c == Grid!Closed
           u == [c EXCEPT !.there = TRUE]
<1>1. /\ UiShape(u) /\ c.cards = << >> /\ u.cards = << >> /\ u.calls = {} /\ u.expanded = None /\ u.at = None
      /\ u.addSaving = FALSE /\ DOMAIN u.shown = Existing
  BY DEF Grid!Closed, UiShape, UiFields
<1>2. ui = Grid!Mount(c, u) /\ DOMAIN polled = Existing BY DEF Grid!Init
<1> HIDE DEF u, c
<1>3. DOMAIN u.cards = {} /\ DOMAIN c.cards = {} BY <1>1
<1>4. CardsShape(u.cards) BY <1>1 DEF CardsShape
<1>5. UiParts(u) BY <1>1, <1>4, AssetsAssumption DEF UiParts, Grid!Assets
<1>6. Waits(u) /\ Closes(u) /\ OnRow(u) /\ HeaderDue(c, u)
  BY <1>1, <1>3 DEF Waits, AddWaits, Closes, OnRow, HeaderDue
<1>7. Pre(c, u) BY <1>1, <1>3, <1>5, <1>6 DEF Pre
<1>8. Good(ui) BY <1>2, <1>7, MountCompletes
<1> QED BY <1>2, <1>8, AssetsAssumption DEF GridInv, Grid!Assets

LEMMA GridStep == GridInv /\ [PagesNext]_<<filesVars, gridVars>> => GridInv'
<1>1. GridInv /\ UNCHANGED gridVars => GridInv'
  BY DEF gridVars, GridInv
<1> QED BY <1>1, DashboardStep, MachineStep, CompressorStep, AddStep, PreviewStep
        DEF PagesNext, Grid!Next

LEMMA GridHolds == PagesSpec => []GridInv
<1>1. PagesInit => GridInv BY GridStarts DEF PagesInit
<1> QED BY <1>1, GridStep, PTL DEF PagesSpec

\* An edit on the dashboard can be ended: the form that adds an asset is open
\* beside no other form, and the header that collapses an asset names the one
\* that is expanded (Dashboard.tsx, MachineCard.tsx, CompressorCard.tsx), for
\* every set of assets, also when one goes while it is edited.
THEOREM EditReachableHolds == PagesSpec => []EditReachable
<1>1. GridInv => EditReachable
  <2> SUFFICES ASSUME GridInv PROVE EditReachable
    OBVIOUS
  <2>1. None \notin DOMAIN ui.cards
    BY AssetsAssumption DEF GridInv, Good, UiParts, Grid!Mounted, Grid!Assets
  <2> QED BY <2>1 DEF GridInv, Good, EditReachable, Grid!EditReachable, Grid!OneForm,
          Grid!HeaderNamesExpanded, Grid!FormOpen, Grid!AddShown
<1> QED BY <1>1, GridHolds, PTL

\* A form of the dashboard that saves, tests or adds has its request under way,
\* and one whose answer still finds the form if it saves or adds (Dashboard.tsx, MachineCard.tsx,
\* CompressorCard.tsx, AddMachineCard.tsx), in whatever order cards are closed,
\* opened and answered.
THEOREM FormsNeverStickHolds == PagesSpec => []FormsNeverStick
<1>1. GridInv => FormsNeverStick
  BY DEF GridInv, Good, Waits, AddWaits, CardWaits, FormsNeverStick, Grid!FormsNeverStick
<1> QED BY <1>1, GridHolds, PTL

\* A preview that is shown has the pointer on its row or on itself, or its timer
\* runs, and no timer runs under the pointer (CompressorCard.tsx), wherever the
\* pointer goes and whichever rows appear and vanish under it.
THEOREM PreviewsCloseHolds == PagesSpec => []PreviewsClose
<1>1. GridInv => PreviewsClose
  BY DEF GridInv, Good, Closes, PreviewsClose, Grid!PreviewsClose
<1> QED BY <1>1, GridHolds, PTL
=============================================================================
