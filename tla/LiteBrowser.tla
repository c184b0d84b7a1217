---------------------------- MODULE LiteBrowser ----------------------------
(***************************************************************************)
(* LiteBrowser.java, a view that shows an HTML page kept by native code    *)
(* (litebrowser.cpp).  The UI thread is told by the framework to lay the   *)
(* view out and to draw it; a thread of the view's own, the lite thread,   *)
(* takes messages, parses pages and lays them out, and posts runnables     *)
(* back.  Between them is the field state, and no lock.                    *)
(*                                                                         *)
(* A rectangle has its right and bottom edges, left and top being 0        *)
(* ("padding not supported"); a page has a height, or is a Tall one, which *)
(* is always higher than the view.                                         *)
(***************************************************************************)
EXTENDS Naturals, Sequences

CONSTANTS Pages, Tall, Height,   \* Height[p]: of a page that is not Tall
          Sizes,                 \* what the parent may give to the view
          Places,                \* where the text of a document may be in memory
          Uses,                  \* how the view may be used:
                                 \*   loads    how often a page is loaded
                                 \*   patient  each once the one before is there
                                 \*   layouts  how often the framework lays the view
                                 \*            out, and draws it, by itself
                                 \*   resized  whether to another size too
                                 \*   destroys how often destory() is called
                                 \*   waits    whether the lite thread is between
                                 \*            messages when it is
          None

STATE_INIT == 0
STATE_HTML_PASS == 4
STATE_RESIZE_LAYOUT == 6
STATE_LAYOUT_PASS == 8

Rect == [right : Nat, bottom : Nat]
Document == [page : Pages, place : Places, laid : BOOLEAN, width : Nat, height : Nat]
Message == [what : {"html", "layout"}, page : Pages \union {None}]
Runnable == [what : {"passed", "resize"}, height : Nat]
Drawing == [page : Pages \union {None}, text : Pages \union {None}, width : Nat, bottom : Nat]
State == {STATE_INIT, STATE_HTML_PASS, STATE_RESIZE_LAYOUT, STATE_LAYOUT_PASS}
AtLite == {"idle", "loading", "equals right", "equals bottom", "copy right", "copy bottom",
           "laying out", "resize", "pass"}
AtUi == {"idle", "bottom", "drawing", "free", "forget"}

ASSUME LiteBrowserAssumption ==
    /\ Tall \subseteq Pages /\ Height \in [Pages -> Nat]
    /\ None \notin Pages /\ None \notin Document
    /\ Sizes \subseteq Rect
    /\ \A u \in Uses : /\ {u.loads, u.layouts, u.destroys} \subseteq Nat
                       /\ {u.patient, u.resized, u.waits} \subseteq BOOLEAN

VARIABLES
    use,            \* the one of the uses that this behaviour is about
    ptr, state,     \* the fields; ptr is whether it is not 0
    layoutRect, preLayoutRect,
    pool,           \* stringPool: the text known for each place
    native,         \* the structure ptr points to: live, freed, or freed twice
    document,       \* its document, None or a page with its place, and whether
                    \* it has been laid out, for what width and to what height
    queue, quit,    \* the messages for the lite thread, and its end
    posted,         \* the runnables for the UI thread
    lite, html,     \* where the lite thread is, and the page it loads
    ui,             \* where the UI thread is
    parent, height, \* the size given by the parent; params.height or None
    wanted,         \* what the framework owes the view: a layout, a drawing
    shown,          \* what was drawn last
    loads, layouts, destroys, calls   \* how many there were; calls of layout()

fields == <<ptr, state, layoutRect, preLayoutRect, pool>>
page == <<native, document>>
looper == <<queue, quit, posted>>
view == <<parent, height, wanted, shown>>
counts == <<loads, layouts, destroys>>
vars == <<use, fields, page, looper, lite, html, ui, view, counts, calls>>

NoRect == [right |-> 0, bottom |-> 0]
Blank == [page |-> None, text |-> None, width |-> 0, bottom |-> 0]

Init ==
    /\ use \in Uses
    /\ ptr = TRUE /\ state = STATE_INIT
    /\ layoutRect = NoRect /\ preLayoutRect = NoRect
    /\ pool = [a \in Places |-> None]
    /\ native = "live" /\ document = None
    /\ queue = <<>> /\ quit = FALSE /\ posted = <<>>
    /\ lite = "idle" /\ html = None /\ ui = "idle"
    /\ parent \in Sizes /\ height = None /\ wanted = {"layout"}
    /\ shown = Blank
    /\ loads = 0 /\ layouts = 0 /\ destroys = 0 /\ calls = 0

(* A message for a looper that has quit is dropped. *)
Send(m) == queue' = IF quit THEN queue ELSE Append(queue, m)

-----------------------------------------------------------------------------
(* The UI thread *)

(* Mutant: the pool keeps the texts of the page before. *)
LoadHtmlKeepsPool(p) ==
    /\ ui = "idle" /\ loads < use.loads
    /\ use.patient => queue = <<>> /\ lite = "idle" /\ posted = <<>>
    /\ loads' = loads + 1
    /\ Send([what |-> "html", page |-> p])
    /\ UNCHANGED <<use, fields, page, quit, posted, lite, html, ui, view, layouts, destroys, calls>>

(* loadHtml and loadUrl; None stands for what is empty or not to be had. *)
LoadHtml(p) ==
    /\ ui = "idle" /\ loads < use.loads
    /\ use.patient => queue = <<>> /\ lite = "idle" /\ posted = <<>>
    /\ loads' = loads + 1
    /\ pool' = [a \in Places |-> None]
    /\ Send([what |-> "html", page |-> p])
    /\ UNCHANGED <<use, ptr, state, layoutRect, preLayoutRect, page, quit, posted,
                   lite, html, ui, view, layouts, destroys, calls>>

(* The runnables of postRequestLayout. *)
RunPosted ==
    /\ ui = "idle" /\ posted # <<>>
    /\ posted' = Tail(posted)
    /\ IF Head(posted).what = "passed"
       THEN state' = STATE_HTML_PASS /\ UNCHANGED height
       ELSE height' = Head(posted).height /\ UNCHANGED state
    /\ wanted' = wanted \union {"layout"}
    /\ UNCHANGED <<use, ptr, layoutRect, preLayoutRect, pool, page, queue, quit, lite,
                   html, ui, parent, shown, counts, calls>>

(* onLayout: the edges are set one after another, then a message is sent. *)
OnLayout ==
    /\ ui = "idle" /\ "layout" \in wanted
    /\ layoutRect' = [layoutRect EXCEPT !.right = parent.right]
    /\ wanted' = wanted \ {"layout"}
    /\ ui' = "bottom"
    /\ UNCHANGED <<use, ptr, state, preLayoutRect, pool, page, looper, lite, html,
                   parent, height, shown, counts, calls>>

OnLayoutBottom ==
    /\ ui = "bottom"
    /\ layoutRect' = [layoutRect EXCEPT !.bottom =
                          IF height = None THEN parent.bottom ELSE height]
    /\ Send([what |-> "layout", page |-> None])
    /\ wanted' = wanted \union {"draw"}
    /\ ui' = "idle"
    /\ UNCHANGED <<use, ptr, state, preLayoutRect, pool, page, quit, posted, lite, html,
                   parent, height, shown, counts, calls>>

OnDraw ==
    /\ ui = "idle" /\ "draw" \in wanted
    /\ wanted' = wanted \ {"draw"}
    /\ ui' = IF ptr /\ state >= STATE_LAYOUT_PASS THEN "drawing" ELSE "idle"
    /\ UNCHANGED <<use, fields, page, looper, lite, html, parent, height, shown, counts, calls>>

(* stringPool.getString *)
Text(d) == IF pool[d.place] = None THEN d.page ELSE pool[d.place]

DrawDone ==
    /\ ui = "drawing"
    /\ IF document = None THEN UNCHANGED <<shown, pool>>
       ELSE /\ shown' = [page |-> document.page, text |-> Text(document),
                         width |-> document.width, bottom |-> layoutRect.bottom]
            /\ pool' = [pool EXCEPT ![document.place] = Text(document)]
    /\ ui' = "idle"
    /\ UNCHANGED <<use, ptr, state, layoutRect, preLayoutRect, page, looper, lite, html,
                   parent, height, wanted, counts, calls>>

(* The framework lays the view out, and draws it, for reasons of its own. *)
Framework(size) ==
    /\ ui = "idle" /\ layouts < use.layouts
    /\ layouts' = layouts + 1
    /\ ~use.resized => size = parent
    /\ parent' = size
    /\ wanted' = {"layout", "draw"}
    /\ UNCHANGED <<use, fields, page, looper, lite, html, ui, height, shown, loads, destroys, calls>>

(* Mutant: whether the pointer is still there is not looked at. *)
DestoryUnguarded ==
    /\ ui = "idle" /\ destroys < use.destroys
    /\ use.waits => lite = "idle"
    /\ destroys' = destroys + 1
    /\ quit' = TRUE /\ queue' = <<>> /\ ui' = "free"
    /\ UNCHANGED <<use, fields, page, posted, lite, html, view, loads, layouts, calls>>

(* destory: the thread is told to quit, what it is at goes on. *)
Destory ==
    /\ ui = "idle" /\ destroys < use.destroys
    /\ use.waits => lite = "idle"
    /\ destroys' = destroys + 1
    /\ IF ptr THEN quit' = TRUE /\ queue' = <<>> /\ ui' = "free"
       ELSE UNCHANGED <<quit, queue, ui>>
    /\ UNCHANGED <<use, fields, page, posted, lite, html, view, loads, layouts, calls>>

DestoryNative ==
    /\ ui = "free"
    /\ native' = IF native = "live" THEN "freed" ELSE "freed twice"
    /\ ui' = "forget"
    /\ UNCHANGED <<use, fields, document, looper, lite, html, view, counts, calls>>

(* Mutant: the pointer is kept. *)
DestoryKeepsPtr ==
    /\ ui = "forget"
    /\ ui' = "idle"
    /\ UNCHANGED <<use, fields, page, looper, lite, html, view, counts, calls>>

DestoryDone ==
    /\ ui = "forget"
    /\ ptr' = FALSE
    /\ ui' = "idle"
    /\ UNCHANGED <<use, state, layoutRect, preLayoutRect, pool, page, looper, lite, html,
                   view, counts, calls>>

UiStep ==
    \/ RunPosted \/ OnLayout \/ OnLayoutBottom \/ OnDraw \/ DrawDone
    \/ DestoryNative \/ DestoryDone

-----------------------------------------------------------------------------
(* The lite thread: handleMessage *)

Take(what) ==
    /\ lite = "idle" /\ queue # <<>> /\ Head(queue).what = what
    /\ queue' = Tail(queue)

TakeHtml ==
    /\ Take("html")
    /\ html' = Head(queue).page
    /\ lite' = IF ptr /\ Head(queue).page # None THEN "loading" ELSE "idle"
    /\ UNCHANGED <<use, fields, page, quit, posted, ui, view, counts, calls>>

(* The new document is made, and its text measured, beside the old one.    *)
Loaded ==
    /\ lite = "loading"
    /\ \E a \in Places :
          /\ document # None => a # document.place
          /\ document' = [page |-> html, place |-> a, laid |-> FALSE, width |-> 0, height |-> 0]
          /\ pool' = [pool EXCEPT ![a] = IF @ = None THEN html ELSE @]
    /\ posted' = Append(posted, [what |-> "passed", height |-> 0])
    /\ lite' = "idle"
    /\ UNCHANGED <<use, ptr, state, layoutRect, preLayoutRect, native, queue, quit, html,
                   ui, view, counts, calls>>

(* Mutant: a page that is laid out is laid out again. *)
TakeLayoutAgain ==
    /\ Take("layout")
    /\ lite' = IF ptr /\ state >= STATE_HTML_PASS THEN "equals right" ELSE "idle"
    /\ UNCHANGED <<use, fields, page, quit, posted, html, ui, view, counts, calls>>

TakeLayout ==
    /\ Take("layout")
    /\ lite' = IF ptr /\ state >= STATE_HTML_PASS /\ state < STATE_LAYOUT_PASS
               THEN "equals right" ELSE "idle"
    /\ UNCHANGED <<use, fields, page, quit, posted, html, ui, view, counts, calls>>

EqualsRight ==
    /\ lite = "equals right"
    /\ lite' = IF preLayoutRect.right = layoutRect.right THEN "equals bottom" ELSE "copy right"
    /\ UNCHANGED <<use, fields, page, looper, html, ui, view, counts, calls>>

EqualsBottom ==
    /\ lite = "equals bottom"
    /\ lite' = IF preLayoutRect.bottom # layoutRect.bottom THEN "copy right"
               ELSE IF state = STATE_RESIZE_LAYOUT THEN "pass" ELSE "idle"
    /\ UNCHANGED <<use, fields, page, looper, html, ui, view, counts, calls>>

CopyRight ==
    /\ lite = "copy right"
    /\ preLayoutRect' = [preLayoutRect EXCEPT !.right = layoutRect.right]
    /\ lite' = "copy bottom"
    /\ UNCHANGED <<use, ptr, state, layoutRect, pool, page, looper, html, ui, view, counts, calls>>

CopyBottom ==
    /\ lite = "copy bottom"
    /\ preLayoutRect' = [preLayoutRect EXCEPT !.bottom = layoutRect.bottom]
    /\ lite' = "laying out"
    /\ calls' = calls + 1
    /\ UNCHANGED <<use, ptr, state, layoutRect, pool, page, looper, html, ui, view, counts>>

(* What render makes of the document's height. *)
Rendered ==
    IF document = None THEN 0
    ELSE IF document.page \in Tall THEN preLayoutRect.bottom + 1
    ELSE Height[document.page]

RenderDocument ==
    document' = IF document = None THEN None
                ELSE [document EXCEPT !.laid = TRUE, !.width = preLayoutRect.right,
                                      !.height = Rendered]

(* Mutant: the view is made as high as the page as often as it is not. *)
LaidOutResizesAgain ==
    /\ lite = "laying out"
    /\ RenderDocument
    /\ lite' = IF Rendered > preLayoutRect.bottom THEN "resize" ELSE "pass"
    /\ UNCHANGED <<use, fields, native, looper, html, ui, view, counts, calls>>

(* layout() returns, and it is decided whether the view must grow. *)
LaidOut ==
    /\ lite = "laying out"
    /\ RenderDocument
    /\ lite' = IF Rendered > preLayoutRect.bottom /\ state # STATE_RESIZE_LAYOUT
               THEN "resize" ELSE "pass"
    /\ UNCHANGED <<use, fields, native, looper, html, ui, view, counts, calls>>

Resize ==
    /\ lite = "resize"
    /\ state' = STATE_RESIZE_LAYOUT
    /\ posted' = Append(posted, [what |-> "resize", height |-> document.height])
    /\ lite' = "idle"
    /\ UNCHANGED <<use, ptr, layoutRect, preLayoutRect, pool, page, queue, quit, html, ui,
                   view, counts, calls>>

(* Mutant: the view is not asked to draw itself. *)
PassUnseen ==
    /\ lite = "pass"
    /\ state' = STATE_LAYOUT_PASS
    /\ lite' = "idle"
    /\ UNCHANGED <<use, ptr, layoutRect, preLayoutRect, pool, page, looper, html, ui,
                   view, counts, calls>>

(* The state is set, then postInvalidate called. *)
Pass ==
    /\ lite = "pass"
    /\ state' = STATE_LAYOUT_PASS
    /\ wanted' = wanted \union {"draw"}
    /\ lite' = "idle"
    /\ UNCHANGED <<use, ptr, layoutRect, preLayoutRect, pool, page, looper, html, ui,
                   parent, height, shown, counts, calls>>

LiteStep ==
    \/ TakeHtml \/ Loaded \/ TakeLayout \/ EqualsRight \/ EqualsBottom
    \/ CopyRight \/ CopyBottom \/ LaidOut \/ Resize \/ Pass

-----------------------------------------------------------------------------
Next ==
    \/ UiStep \/ LiteStep
    \/ \E p \in Pages \union {None} : LoadHtml(p)
    \/ \E size \in Sizes : Framework(size)
    \/ Destory

Spec == Init /\ [][Next]_vars

(* Both threads have loopers that go on as long as there is something to   *)
(* do; nobody need load or destroy.                                        *)
FairSpec == Spec /\ WF_vars(UiStep) /\ WF_vars(LiteStep)

-----------------------------------------------------------------------------
TypeOK ==
    /\ use \in Uses
    /\ ptr \in BOOLEAN
    /\ state \in State
    /\ layoutRect \in Rect /\ preLayoutRect \in Rect
    /\ pool \in [Places -> Pages \union {None}]
    /\ native \in {"live", "freed"}
    /\ document \in Document \union {None}
    /\ queue \in Seq(Message) /\ quit \in BOOLEAN
    /\ posted \in Seq(Runnable)
    /\ lite \in AtLite /\ html \in Pages \union {None}
    /\ ui \in AtUi
    /\ parent \in Sizes /\ height \in Nat \union {None}
    /\ wanted \subseteq {"layout", "draw"}
    /\ shown \in Drawing
    /\ loads \in Nat /\ layouts \in Nat /\ destroys \in Nat /\ calls \in Nat

(***************************************************************************)
(* Nothing locks the document: of a view that loads one page, the UI       *)
(* thread draws it only when it has been laid out and the lite thread is   *)
(* done with it (LiteBrowser.java:177, 218-219).                           *)
(***************************************************************************)
DrawsFinished ==
    use.loads = 1 /\ ui = "drawing" =>
        /\ document # None /\ document.laid
        /\ lite \notin {"loading", "copy right", "copy bottom", "laying out"}

(***************************************************************************)
(* After destory() neither thread calls native code with what was freed,   *)
(* whichever messages and runnables were on their way, and a second        *)
(* destory() frees nothing; the lite thread provided that destory() did    *)
(* not come in the middle of a message (LiteBrowser.java:135-144).         *)
(***************************************************************************)
NativeAlive ==
    native # "live" =>
        /\ native = "freed"
        /\ ui # "drawing"
        /\ use.waits => lite \notin {"loading", "laying out"}

(***************************************************************************)
(* A page that never fits does not make the view grow for ever: each load  *)
(* costs two layouts at most ("FIXME DOUBLE LAYOUT",                       *)
(* LiteBrowser.java:222).                                                  *)
(***************************************************************************)
LayoutsBounded == calls <= 2 * loads

(***************************************************************************)
(* The text drawn is that of the page drawn, although texts are known by   *)
(* their place in memory, which a later page may have again; provided that *)
(* each load waits for the one before (StringPool.java:12-24).             *)
(***************************************************************************)
TextIsPages == use.patient => shown.text = shown.page

(***************************************************************************)
(* A page that has been loaded is shown in the end, laid out for the       *)
(* width of the view and, unless it is a Tall one, as a whole, whatever    *)
(* layouts come in between; provided it is the only page, and the view     *)
(* keeps the size that the parent gave it and is not destroyed.            *)
(***************************************************************************)
Presented ==
    /\ shown.page = document.page /\ shown.width = parent.right
    /\ document.page \notin Tall => document.height <= shown.bottom
LoadShown ==
    (document # None /\ use.loads = 1 /\ use.destroys = 0 /\ ~use.resized)
        ~> [](document # None /\ Presented)
=============================================================================
