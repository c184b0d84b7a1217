------------------------- MODULE LiteBrowserProofs -------------------------
(***************************************************************************)
(* Theorems about LiteBrowser, for any pages, sizes and uses.              *)
(***************************************************************************)
EXTENDS LiteBrowser, FiniteSetTheorems, FunctionTheorems, TLAPS

(* What typing the steps of both threads needs besides TypeOK. *)
Carried ==
    /\ lite = "loading" => html \in Pages
    /\ lite = "resize" => document # None

(* The native structure lives as long as ptr leads to it, except in the    *)
(* last step of destory(), and the lite thread gets no more messages from  *)
(* the moment destory() begins.                                            *)
Life ==
    /\ ui = "free" => native = "live" /\ ptr
    /\ ui = "forget" => native = "freed"
    /\ native = "freed" => ui = "forget" \/ ~ptr
    /\ native = "freed" => ui # "drawing"
    /\ ui = "free" \/ native = "freed" => quit
    /\ quit => queue = <<>>
    /\ quit /\ use.waits => lite = "idle"

Html(i) == i \in 1 .. Len(queue) /\ queue[i].what = "html"
Passed(i) == i \in 1 .. Len(posted) /\ posted[i].what = "passed"
Working == lite \notin {"idle", "loading"}

(* Of a view that loads one page: the page is on its way, being loaded,    *)
(* loaded, or announced to the UI thread, one after the other ...          *)
OneHtml ==
    /\ \A i, j \in Nat : Html(i) /\ Html(j) => i = j
    /\ \A i \in Nat : Html(i) => loads # 0 /\ lite # "loading" /\ document = None
OnePassed ==
    /\ \A i, j \in Nat : Passed(i) /\ Passed(j) => i = j
    /\ \A i \in Nat : Passed(i) => document # None /\ state = STATE_INIT

(* ... and the state tells the UI thread how far the lite thread is.       *)
Stage ==
    /\ lite = "loading" => loads # 0 /\ document = None
    /\ document # None => loads # 0
    /\ state # STATE_INIT => document # None
    /\ Working => state \in {STATE_HTML_PASS, STATE_RESIZE_LAYOUT}
    /\ lite \in {"pass", "resize"} \/ state \in {STATE_RESIZE_LAYOUT, STATE_LAYOUT_PASS} =>
           document # None /\ document.laid
    /\ ui = "drawing" => state = STATE_LAYOUT_PASS

Single == OneHtml /\ OnePassed /\ Stage

Inv == TypeOK /\ Carried /\ Life /\ (use.loads = 1 => Single)

States == STATE_INIT = 0 /\ STATE_HTML_PASS = 4 /\ STATE_RESIZE_LAYOUT = 6 /\ STATE_LAYOUT_PASS = 8

LEMMA StateValues == States
  BY DEF States, STATE_INIT, STATE_HTML_PASS, STATE_RESIZE_LAYOUT, STATE_LAYOUT_PASS

(* What the loopers' queues are made of. *)
LEMMA QueueTypes ==
    ASSUME NEW S, NEW q \in Seq(S)
    PROVE  /\ q # <<>> => Tail(q) \in Seq(S) /\ Head(q) \in S
           /\ \A e \in S : Append(q, e) \in Seq(S)
           /\ <<>> \in Seq(S)
  OBVIOUS

LEMMA SendType ==
    ASSUME queue \in Seq(Message), NEW m \in Message, Send(m)
    PROVE  queue' \in Seq(Message)
  BY QueueTypes DEF Send

(* The steps keep the types. *)
LEMMA TypeStep == TypeOK /\ Carried /\ Life /\ [Next]_vars => TypeOK'
  <1> SUFFICES ASSUME TypeOK, Carried, Life, [Next]_vars PROVE TypeOK'
    OBVIOUS
  <1>1. ASSUME NEW p \in Pages \union {None}, LoadHtml(p) PROVE TypeOK'
    <2>1. UNCHANGED <<use, ptr, state, layoutRect, preLayoutRect, native,
                     document, quit, posted, lite, html, ui, parent, height,
                     wanted, shown, layouts, destroys, calls>>
      BY <1>1 DEF LoadHtml, fields, page, looper, view, counts
    <2>2. pool' \in [Places -> Pages \union {None}]
      BY <1>1 DEF TypeOK, LoadHtml, Send
    <2>3. queue' \in Seq(Message)
      <3>1. [what |-> "html", page |-> p] \in Message
        BY DEF Message
      <3>2. QED
        BY <1>1, <3>1, SendType DEF TypeOK, LoadHtml
    <2>4. loads' \in Nat
      BY <1>1 DEF TypeOK, LoadHtml, Send
    <2>5. QED
      BY <2>1, <2>2, <2>3, <2>4 DEF TypeOK
  <1>2. CASE RunPosted
    <2>1. UNCHANGED <<use, ptr, layoutRect, preLayoutRect, pool, native,
                     document, queue, quit, lite, html, ui, parent, shown,
                     loads, layouts, destroys, calls>>
      BY <1>2 DEF RunPosted, fields, page, looper, view, counts
    <2>2. posted' \in Seq(Runnable)
      BY <1>2, QueueTypes DEF TypeOK, RunPosted
    <2>3. state' \in State
      BY <1>2 DEF TypeOK, RunPosted, State
    <2>4. height' \in Nat \union {None}
      <3>1. Head(posted) \in Runnable
        BY <1>2, QueueTypes DEF TypeOK, RunPosted
      <3>2. QED
        BY <1>2, <3>1 DEF TypeOK, RunPosted, Runnable
    <2>5. wanted' \subseteq {"layout", "draw"}
      BY <1>2 DEF TypeOK, RunPosted
    <2>6. QED
      BY <2>1, <2>2, <2>3, <2>4, <2>5 DEF TypeOK
  <1>3. CASE OnLayout
    <2>1. UNCHANGED <<use, ptr, state, preLayoutRect, pool, native, document,
                     queue, quit, posted, lite, html, parent, height, shown,
                     loads, layouts, destroys, calls>>
      BY <1>3 DEF OnLayout, fields, page, looper, view, counts
    <2>2. layoutRect' \in Rect
      BY <1>3, LiteBrowserAssumption DEF TypeOK, OnLayout, Rect
    <2>3. wanted' \subseteq {"layout", "draw"}
      BY <1>3, LiteBrowserAssumption DEF TypeOK, OnLayout, Rect
    <2>4. ui' \in AtUi
      BY <1>3, LiteBrowserAssumption DEF TypeOK, OnLayout, Rect, AtUi
    <2>5. QED
      BY <2>1, <2>2, <2>3, <2>4 DEF TypeOK
  <1>4. CASE OnLayoutBottom
    <2>1. UNCHANGED <<use, ptr, state, preLayoutRect, pool, native, document,
                     quit, posted, lite, html, parent, height, shown, loads,
                     layouts, destroys, calls>>
      BY <1>4 DEF OnLayoutBottom, fields, page, looper, view, counts
    <2>2. layoutRect' \in Rect
      BY <1>4, LiteBrowserAssumption DEF TypeOK, OnLayoutBottom, Send, Rect
    <2>3. queue' \in Seq(Message)
      <3>1. [what |-> "layout", page |-> None] \in Message
        BY DEF Message
      <3>2. QED
        BY <1>4, <3>1, SendType DEF TypeOK, OnLayoutBottom
    <2>4. wanted' \subseteq {"layout", "draw"}
      BY <1>4, LiteBrowserAssumption DEF TypeOK, OnLayoutBottom, Send, Rect
    <2>5. ui' \in AtUi
      BY <1>4, LiteBrowserAssumption DEF TypeOK, OnLayoutBottom, Send, Rect, AtUi
    <2>6. QED
      BY <2>1, <2>2, <2>3, <2>4, <2>5 DEF TypeOK
  <1>5. CASE OnDraw
    <2>1. UNCHANGED <<use, ptr, state, layoutRect, preLayoutRect, pool,
                     native, document, queue, quit, posted, lite, html,
                     parent, height, shown, loads, layouts, destroys, calls>>
      BY <1>5 DEF OnDraw, fields, page, looper, view, counts
    <2>2. wanted' \subseteq {"layout", "draw"}
      BY <1>5 DEF TypeOK, OnDraw
    <2>3. ui' \in AtUi
      BY <1>5 DEF TypeOK, OnDraw, AtUi
    <2>4. QED
      BY <2>1, <2>2, <2>3 DEF TypeOK
  <1>6. CASE DrawDone
    <2>1. UNCHANGED <<use, ptr, state, layoutRect, preLayoutRect, native,
                     document, queue, quit, posted, lite, html, parent,
                     height, wanted, loads, layouts, destroys, calls>>
      BY <1>6 DEF DrawDone, fields, page, looper, view, counts
    <2>2. shown' \in Drawing
      BY <1>6 DEF TypeOK, DrawDone, Text, Document, Rect, Drawing
    <2>3. pool' \in [Places -> Pages \union {None}]
      BY <1>6 DEF TypeOK, DrawDone, Text, Document, Rect
    <2>4. ui' \in AtUi
      BY <1>6 DEF TypeOK, DrawDone, Text, Document, Rect, AtUi
    <2>5. QED
      BY <2>1, <2>2, <2>3, <2>4 DEF TypeOK
  <1>7. ASSUME NEW size \in Sizes, Framework(size) PROVE TypeOK'
    <2>1. UNCHANGED <<use, ptr, state, layoutRect, preLayoutRect, pool,
                     native, document, queue, quit, posted, lite, html, ui,
                     height, shown, loads, destroys, calls>>
      BY <1>7 DEF Framework, fields, page, looper, view, counts
    <2>2. layouts' \in Nat
      BY <1>7 DEF TypeOK, Framework
    <2>3. parent' \in Sizes
      BY <1>7 DEF TypeOK, Framework
    <2>4. wanted' \subseteq {"layout", "draw"}
      BY <1>7 DEF TypeOK, Framework
    <2>5. QED
      BY <2>1, <2>2, <2>3, <2>4 DEF TypeOK
  <1>8. CASE Destory
    <2>1. UNCHANGED <<use, ptr, state, layoutRect, preLayoutRect, pool,
                     native, document, posted, lite, html, parent, height,
                     wanted, shown, loads, layouts, calls>>
      BY <1>8 DEF Destory, fields, page, looper, view, counts
    <2>2. destroys' \in Nat
      BY <1>8 DEF TypeOK, Destory
    <2>3. quit' \in BOOLEAN
      BY <1>8 DEF TypeOK, Destory
    <2>4. queue' \in Seq(Message)
      BY <1>8, QueueTypes DEF TypeOK, Destory
    <2>5. ui' \in AtUi
      BY <1>8 DEF TypeOK, Destory, AtUi
    <2>6. QED
      BY <2>1, <2>2, <2>3, <2>4, <2>5 DEF TypeOK
  <1>9. CASE DestoryNative
    <2>1. UNCHANGED <<use, ptr, state, layoutRect, preLayoutRect, pool,
                     document, queue, quit, posted, lite, html, parent,
                     height, wanted, shown, loads, layouts, destroys, calls>>
      BY <1>9 DEF DestoryNative, fields, page, looper, view, counts
    <2>2. native' \in {"live", "freed"}
      BY <1>9 DEF TypeOK, DestoryNative, Life
    <2>3. ui' \in AtUi
      BY <1>9 DEF TypeOK, DestoryNative, Life, AtUi
    <2>4. QED
      BY <2>1, <2>2, <2>3 DEF TypeOK
  <1>10. CASE DestoryDone
    <2>1. UNCHANGED <<use, state, layoutRect, preLayoutRect, pool, native,
                     document, queue, quit, posted, lite, html, parent,
                     height, wanted, shown, loads, layouts, destroys, calls>>
      BY <1>10 DEF DestoryDone, fields, page, looper, view, counts
    <2>2. ptr' \in BOOLEAN
      BY <1>10 DEF TypeOK, DestoryDone
    <2>3. ui' \in AtUi
      BY <1>10 DEF TypeOK, DestoryDone, AtUi
    <2>4. QED
      BY <2>1, <2>2, <2>3 DEF TypeOK
  <1>11. CASE TakeHtml
    <2>1. UNCHANGED <<use, ptr, state, layoutRect, preLayoutRect, pool,
                     native, document, quit, posted, ui, parent, height,
                     wanted, shown, loads, layouts, destroys, calls>>
      BY <1>11 DEF TakeHtml, fields, page, looper, view, counts
    <2>2. queue' \in Seq(Message)
      BY <1>11, QueueTypes DEF TypeOK, TakeHtml, Take
    <2>3. html' \in Pages \union {None}
      <3>1. Head(queue) \in Message
        BY <1>11, QueueTypes DEF TypeOK, TakeHtml, Take
      <3>2. QED
        BY <1>11, <3>1 DEF TakeHtml, Message
    <2>4. lite' \in AtLite
      BY <1>11 DEF TypeOK, TakeHtml, Take, AtLite
    <2>5. QED
      BY <2>1, <2>2, <2>3, <2>4 DEF TypeOK
  <1>12. CASE Loaded
    <2>1. UNCHANGED <<use, ptr, state, layoutRect, preLayoutRect, native,
                     queue, quit, html, ui, parent, height, wanted, shown,
                     loads, layouts, destroys, calls>>
      BY <1>12 DEF Loaded, fields, page, looper, view, counts
    <2>2. document' \in Document \union {None}
      BY <1>12 DEF TypeOK, Loaded, Carried, Document
    <2>3. pool' \in [Places -> Pages \union {None}]
      BY <1>12 DEF TypeOK, Loaded, Carried, Document
    <2>4. posted' \in Seq(Runnable)
      <3>1. [what |-> "passed", height |-> 0] \in Runnable
        BY DEF Runnable
      <3>2. QED
        BY <1>12, <3>1, QueueTypes DEF TypeOK, Loaded
    <2>5. lite' \in AtLite
      BY <1>12 DEF TypeOK, Loaded, Carried, Document, AtLite
    <2>6. QED
      BY <2>1, <2>2, <2>3, <2>4, <2>5 DEF TypeOK
  <1>13. CASE TakeLayout
    <2>1. UNCHANGED <<use, ptr, state, layoutRect, preLayoutRect, pool,
                     native, document, quit, posted, html, ui, parent,
                     height, wanted, shown, loads, layouts, destroys, calls>>
      BY <1>13 DEF TakeLayout, fields, page, looper, view, counts
    <2>2. queue' \in Seq(Message)
      BY <1>13, QueueTypes DEF TypeOK, TakeLayout, Take
    <2>3. lite' \in AtLite
      BY <1>13 DEF TypeOK, TakeLayout, Take, AtLite
    <2>4. QED
      BY <2>1, <2>2, <2>3 DEF TypeOK
  <1>14. CASE EqualsRight
    <2>1. UNCHANGED <<use, ptr, state, layoutRect, preLayoutRect, pool,
                     native, document, queue, quit, posted, html, ui,
                     parent, height, wanted, shown, loads, layouts,
                     destroys, calls>>
      BY <1>14 DEF EqualsRight, fields, page, looper, view, counts
    <2>2. lite' \in AtLite
      BY <1>14 DEF TypeOK, EqualsRight, AtLite
    <2>3. QED
      BY <2>1, <2>2 DEF TypeOK
  <1>15. CASE EqualsBottom
    <2>1. UNCHANGED <<use, ptr, state, layoutRect, preLayoutRect, pool,
                     native, document, queue, quit, posted, html, ui,
                     parent, height, wanted, shown, loads, layouts,
                     destroys, calls>>
      BY <1>15 DEF EqualsBottom, fields, page, looper, view, counts
    <2>2. lite' \in AtLite
      BY <1>15 DEF TypeOK, EqualsBottom, AtLite
    <2>3. QED
      BY <2>1, <2>2 DEF TypeOK
  <1>16. CASE CopyRight
    <2>1. UNCHANGED <<use, ptr, state, layoutRect, pool, native, document,
                     queue, quit, posted, html, ui, parent, height, wanted,
                     shown, loads, layouts, destroys, calls>>
      BY <1>16 DEF CopyRight, fields, page, looper, view, counts
    <2>2. preLayoutRect' \in Rect
      BY <1>16 DEF TypeOK, CopyRight, Rect
    <2>3. lite' \in AtLite
      BY <1>16 DEF TypeOK, CopyRight, Rect, AtLite
    <2>4. QED
      BY <2>1, <2>2, <2>3 DEF TypeOK
  <1>17. CASE CopyBottom
    <2>1. UNCHANGED <<use, ptr, state, layoutRect, pool, native, document,
                     queue, quit, posted, html, ui, parent, height, wanted,
                     shown, loads, layouts, destroys>>
      BY <1>17 DEF CopyBottom, fields, page, looper, view, counts
    <2>2. preLayoutRect' \in Rect
      BY <1>17 DEF TypeOK, CopyBottom, Rect
    <2>3. lite' \in AtLite
      BY <1>17 DEF TypeOK, CopyBottom, Rect, AtLite
    <2>4. calls' \in Nat
      <3>1. calls \in Nat
        BY DEF TypeOK
      <3>2. calls' = calls + 1
        BY <1>17 DEF CopyBottom
      <3>3. QED
        BY <3>1, <3>2
    <2>5. QED
      BY <2>1, <2>2, <2>3, <2>4 DEF TypeOK
  <1>18. CASE LaidOut
    <2>1. UNCHANGED <<use, ptr, state, layoutRect, preLayoutRect, pool,
                     native, queue, quit, posted, html, ui, parent, height,
                     wanted, shown, loads, layouts, destroys, calls>>
      BY <1>18 DEF LaidOut, fields, page, looper, view, counts
    <2>2. Rendered \in Nat
      BY LiteBrowserAssumption DEF TypeOK, Rendered, Document, Rect
    <2>3. document' \in Document \union {None}
      BY <1>18, <2>2 DEF TypeOK, LaidOut, RenderDocument, Document, Rect
    <2>4. lite' \in AtLite
      BY <1>18, <2>2 DEF TypeOK, LaidOut, RenderDocument, Document, Rect, AtLite
    <2>5. QED
      BY <2>1, <2>3, <2>4 DEF TypeOK
  <1>19. CASE Resize
    <2>1. UNCHANGED <<use, ptr, layoutRect, preLayoutRect, pool, native,
                     document, queue, quit, html, ui, parent, height,
                     wanted, shown, loads, layouts, destroys, calls>>
      BY <1>19 DEF Resize, fields, page, looper, view, counts
    <2>2. state' \in State
      BY <1>19 DEF TypeOK, Resize, Carried, Document, State
    <2>3. posted' \in Seq(Runnable)
      <3>1. document \in Document
        BY <1>19 DEF TypeOK, Resize, Carried
      <3>2. [what |-> "resize", height |-> document.height] \in Runnable
        BY <3>1 DEF Document, Runnable
      <3>3. QED
        BY <1>19, <3>2, QueueTypes DEF TypeOK, Resize
    <2>4. lite' \in AtLite
      BY <1>19 DEF TypeOK, Resize, Carried, Document, AtLite
    <2>5. QED
      BY <2>1, <2>2, <2>3, <2>4 DEF TypeOK
  <1>20. CASE Pass
    <2>1. UNCHANGED <<use, ptr, layoutRect, preLayoutRect, pool, native,
                     document, queue, quit, posted, html, ui, parent,
                     height, shown, loads, layouts, destroys, calls>>
      BY <1>20 DEF Pass, fields, page, looper, view, counts
    <2>2. state' \in State
      BY <1>20 DEF TypeOK, Pass, State
    <2>3. wanted' \subseteq {"layout", "draw"}
      BY <1>20 DEF TypeOK, Pass
    <2>4. lite' \in AtLite
      BY <1>20 DEF TypeOK, Pass, AtLite
    <2>5. QED
      BY <2>1, <2>2, <2>3, <2>4 DEF TypeOK
  <1>21. CASE UNCHANGED vars
    BY <1>21 DEF TypeOK, vars, fields, page, looper, view, counts
  <1>22. QED
    BY <1>1, <1>2, <1>3, <1>4, <1>5, <1>6, <1>7, <1>8, <1>9, <1>10,
       <1>11, <1>12, <1>13, <1>14, <1>15, <1>16, <1>17, <1>18, <1>19, <1>20,
       <1>21 DEF Next, UiStep, LiteStep

(* The steps keep what they carry, and the life of the native structure.   *)
LEMMA LifeStep == TypeOK /\ Carried /\ Life /\ [Next]_vars => Carried' /\ Life'
  <1> SUFFICES ASSUME TypeOK, Carried, Life, [Next]_vars PROVE Carried' /\ Life'
    OBVIOUS
  <1> USE DEF Carried, Life
  <1>0. /\ native \in {"live", "freed"} /\ quit \in BOOLEAN /\ ptr \in BOOLEAN
        /\ queue \in Seq(Message) /\ html \in Pages \union {None}
        /\ document \in Document \union {None} /\ preLayoutRect \in Rect
    BY DEF TypeOK
  <1>1. ASSUME NEW p \in Pages \union {None}, LoadHtml(p) PROVE Carried' /\ Life'
    BY <1>1 DEF LoadHtml, Send, page, view
  <1>2. CASE RunPosted
    BY <1>2 DEF RunPosted, page, counts
  <1>3. CASE OnLayout
    BY <1>3 DEF OnLayout, page, looper, counts
  <1>4. CASE OnLayoutBottom
    BY <1>4 DEF OnLayoutBottom, Send, page, counts
  <1>5. CASE OnDraw
    BY <1>5 DEF OnDraw, fields, page, looper, counts
  <1>6. CASE DrawDone
    BY <1>6 DEF DrawDone, page, looper, counts
  <1>7. ASSUME NEW size \in Sizes, Framework(size) PROVE Carried' /\ Life'
    BY <1>7 DEF Framework, fields, page, looper
  <1>8. CASE Destory
    <2>1. Carried'
      BY <1>8 DEF Destory, page
    <2>2. Life'
      <3>1. CASE ptr
        BY <1>8, <3>1, <1>0 DEF Destory, fields, page
      <3>2. CASE ~ptr
        BY <1>8, <3>2, <1>0 DEF Destory, fields, page
      <3>3. QED
        BY <3>1, <3>2
    <2>3. QED
      BY <2>1, <2>2
  <1>9. CASE DestoryNative
    BY <1>9 DEF DestoryNative, fields, looper, view, counts
  <1>10. CASE DestoryDone
    BY <1>10 DEF DestoryDone, page, looper, view, counts
  <1>11. CASE TakeHtml
    <2>1. ~quit
      BY <1>11 DEF TakeHtml, Take
    <2>2. Head(queue).page \in Pages \union {None}
      <3>1. queue # <<>>
        BY <1>11 DEF TakeHtml, Take
      <3>2. Head(queue) \in Message
        BY <1>0, <3>1, QueueTypes
      <3>3. QED
        BY <3>2 DEF Message
    <2>3. Carried'
      BY <1>11, <2>2 DEF TakeHtml, page
    <2>4. QED
      BY <1>11, <2>1, <2>3 DEF TakeHtml, fields, page
  <1>12. CASE Loaded
    BY <1>12 DEF Loaded, view, counts
  <1>13. CASE TakeLayout
    BY <1>13 DEF TakeLayout, Take, fields, page, view, counts
  <1>14. CASE EqualsRight \/ EqualsBottom
    <2>1. /\ lite' \notin {"loading", "resize"}
          /\ lite # "idle"
      BY <1>14 DEF EqualsRight, EqualsBottom
    <2>2. UNCHANGED <<use, ptr, native, document, queue, quit, html, ui>>
      BY <1>14 DEF EqualsRight, EqualsBottom, fields, page, looper
    <2>3. QED
      BY <2>1, <2>2
  <1>15. CASE CopyRight \/ CopyBottom
    <2>1. /\ lite' \notin {"loading", "resize"}
          /\ lite # "idle"
      BY <1>15 DEF CopyRight, CopyBottom
    <2>2. UNCHANGED <<use, ptr, native, document, queue, quit, html, ui>>
      BY <1>15 DEF CopyRight, CopyBottom, page, looper
    <2>3. QED
      BY <2>1, <2>2
  <1>16. CASE LaidOut
    <2>0. Rendered \in Nat
      BY <1>0, LiteBrowserAssumption DEF Rendered, Document, Rect
    <2>1. lite' = "resize" => document' # None
      <3>1. CASE document = None
        <4>1. Rendered = 0 /\ preLayoutRect.bottom \in Nat
          BY <1>0, <3>1 DEF Rendered, Rect
        <4>2. lite' = IF Rendered > preLayoutRect.bottom /\ state # STATE_RESIZE_LAYOUT
                      THEN "resize" ELSE "pass"
          BY <1>16 DEF LaidOut
        <4>3. QED
          BY <4>1, <4>2
      <3>2. CASE document # None
        <4>1. document' \in Document
          BY <2>0, <1>0, <1>16, <3>2 DEF LaidOut, RenderDocument, Document, Rect
        <4>2. QED
          BY <4>1, LiteBrowserAssumption
      <3>3. QED
        BY <3>1, <3>2
    <2>2. QED
      BY <1>16, <2>1 DEF LaidOut, fields, looper, view, counts
  <1>17. CASE Resize
    BY <1>17 DEF Resize, page, view, counts
  <1>18. CASE Pass
    BY <1>18 DEF Pass, page, looper, counts
  <1>19. CASE UNCHANGED vars
    BY <1>19 DEF vars, fields, page, looper, view, counts
  <1>20. QED
    BY <1>1, <1>2, <1>3, <1>4, <1>5, <1>6, <1>7, <1>8, <1>9, <1>10, <1>11, <1>12,
       <1>13, <1>14, <1>15, <1>16, <1>17, <1>18, <1>19 DEF Next, UiStep, LiteStep

(* What is where in a queue after a step of its looper, or a message.      *)
LEMMA TailAt ==
    ASSUME NEW S, NEW q \in Seq(S), q # <<>>, NEW i \in 1 .. Len(Tail(q))
    PROVE  i + 1 \in 1 .. Len(q) /\ Tail(q)[i] = q[i + 1]
  OBVIOUS

LEMMA AppendAt ==
    ASSUME NEW S, NEW q \in Seq(S), NEW e \in S, NEW i \in 1 .. Len(Append(q, e))
    PROVE  \/ i \in 1 .. Len(q) /\ Append(q, e)[i] = q[i]
           \/ i = Len(q) + 1 /\ Append(q, e)[i] = e
  OBVIOUS

LEMMA HtmlTail ==
    ASSUME queue \in Seq(Message), queue # <<>>, queue' = Tail(queue), NEW i \in Nat, Html(i)'
    PROVE  Html(i + 1)
  BY TailAt DEF Html

LEMMA HtmlSend ==
    ASSUME queue \in Seq(Message), NEW m \in Message, Send(m), NEW i \in Nat, Html(i)'
    PROVE  Html(i) \/ (i = Len(queue) + 1 /\ m.what = "html")
  <1>1. CASE quit
    BY <1>1 DEF Send, Html
  <1>2. CASE ~quit
    <2>1. queue' = Append(queue, m)
      BY <1>2 DEF Send
    <2>2. i \in 1 .. Len(Append(queue, m)) /\ Append(queue, m)[i].what = "html"
      BY <2>1 DEF Html
    <2>3. QED
      BY <2>2, AppendAt DEF Html
  <1>3. QED
    BY <1>1, <1>2

LEMMA PassedTail ==
    ASSUME posted \in Seq(Runnable), posted # <<>>, posted' = Tail(posted),
           NEW i \in Nat, Passed(i)'
    PROVE  Passed(i + 1)
  BY TailAt DEF Passed

LEMMA PassedAppend ==
    ASSUME posted \in Seq(Runnable), NEW r \in Runnable, posted' = Append(posted, r),
           NEW i \in Nat, Passed(i)'
    PROVE  Passed(i) \/ (i = Len(posted) + 1 /\ r.what = "passed")
  <1>1. i \in 1 .. Len(Append(posted, r)) /\ Append(posted, r)[i].what = "passed"
    BY DEF Passed
  <1>2. QED
    BY <1>1, AppendAt DEF Passed

(* A step that leaves the messages, or the announcement, alone.            *)
LEMMA SameHtml ==
    ASSUME OneHtml, UNCHANGED <<queue, document>>, loads # 0 => loads' # 0,
           lite' = "loading" => lite = "loading"
    PROVE  OneHtml'
  BY DEF OneHtml, Html

LEMMA SamePassed ==
    ASSUME OnePassed, UNCHANGED <<posted, document, state>>
    PROVE  OnePassed'
  BY DEF OnePassed, Passed

(* The steps keep what is known of a view that loads one page.             *)
LEMMA SingleStep ==
    TypeOK /\ Carried /\ Single /\ use.loads = 1 /\ [Next]_vars => Single'
  <1> SUFFICES ASSUME TypeOK, Carried, Single, use.loads = 1, [Next]_vars PROVE Single'
    OBVIOUS
  <1> DEFINE Stays == UNCHANGED <<loads, document, state, lite, ui>>
  <1>0. /\ queue \in Seq(Message) /\ posted \in Seq(Runnable) /\ state \in State
        /\ html \in Pages \union {None} /\ loads \in Nat
        /\ document \in Document \union {None}
    BY DEF TypeOK
  <1>a. OneHtml /\ OnePassed /\ Stage
    BY DEF Single
  <1>b. ASSUME Stays PROVE Stage'
    BY <1>a, <1>b DEF Stage, Working
  <1>c. ASSUME UNCHANGED <<loads, document, state, lite>>, ui' # "drawing" PROVE Stage'
    BY <1>a, <1>c DEF Stage, Working
  <1>1. ASSUME NEW p \in Pages \union {None}, LoadHtml(p) PROVE Single'
    <2>1. /\ loads < use.loads /\ loads' = loads + 1
          /\ UNCHANGED <<document, state, lite, ui, posted>>
      BY <1>1 DEF LoadHtml, page, view
    <2>2. loads = 0 /\ loads' = 1
      BY <2>1, <1>0
    <2>3. \A i \in Nat : ~Html(i)
      BY <2>2, <1>a DEF OneHtml
    <2>4. lite # "loading" /\ document = None
      BY <2>2, <1>a DEF Stage
    <2>5. \A i \in Nat : Html(i)' => i = Len(queue) + 1
      <3>1. [what |-> "html", page |-> p] \in Message
        BY DEF Message
      <3>2. Send([what |-> "html", page |-> p])
        BY <1>1 DEF LoadHtml
      <3>3. QED
        BY <3>1, <3>2, <1>0, <2>3, HtmlSend
    <2>6. OneHtml'
      <3>1. ASSUME NEW i \in Nat, Html(i)' PROVE loads' # 0 /\ lite' # "loading" /\ document' = None
        BY <2>1, <2>2, <2>4
      <3>2. ASSUME NEW i \in Nat, NEW j \in Nat, Html(i)', Html(j)' PROVE i = j
        BY <3>2, <2>5
      <3>3. QED
        BY <3>1, <3>2 DEF OneHtml
    <2>7. OnePassed'
      BY <2>1, <1>a, SamePassed
    <2>8. Stage'
      BY <2>1, <2>2, <1>a DEF Stage, Working
    <2>9. QED
      BY <2>6, <2>7, <2>8 DEF Single
  <1>2. CASE RunPosted
    <2>1. /\ ui = "idle" /\ posted # <<>> /\ posted' = Tail(posted)
          /\ UNCHANGED <<loads, document, lite, ui, queue>>
      BY <1>2 DEF RunPosted, page, counts
    <2>2. OneHtml'
      BY <2>1, <1>a, SameHtml
    <2>3. \A i \in Nat : Passed(i)' => Passed(i + 1)
      BY <2>1, <1>0, PassedTail
    <2>4. CASE Head(posted).what = "passed"
      <3>1. Passed(1)
        BY <2>4, <2>1, <1>0 DEF Passed
      <3>2. \A i \in Nat : ~Passed(i)'
        <4>1. SUFFICES ASSUME NEW i \in Nat, Passed(i)' PROVE FALSE
          OBVIOUS
        <4>2. Passed(i + 1) /\ i + 1 \in Nat /\ i \in 1 .. Len(posted')
          BY <4>1, <2>3 DEF Passed
        <4>3. i + 1 = 1
          BY <4>2, <3>1, <1>a DEF OnePassed
        <4>4. QED
          BY <4>2, <4>3
      <3>3. state' = STATE_HTML_PASS /\ document # None /\ state = STATE_INIT
        BY <2>4, <3>1, <1>2, <1>a DEF RunPosted, OnePassed
      <3>4. OnePassed'
        BY <3>2 DEF OnePassed
      <3>5. Stage'
        BY <2>1, <3>3, <1>a, StateValues DEF Stage, Working, States
      <3>6. QED
        BY <2>2, <3>4, <3>5 DEF Single
    <2>5. CASE Head(posted).what # "passed"
      <3>1. UNCHANGED state
        BY <1>2, <2>5 DEF RunPosted
      <3>2. OnePassed'
        BY <2>1, <2>3, <3>1, <1>a DEF OnePassed
      <3>3. QED
        BY <2>1, <2>2, <3>1, <3>2, <1>b DEF Single
    <2>6. QED
      BY <2>4, <2>5
  <1>3. ASSUME NEW m \in Message, m.what # "html", Send(m),
               UNCHANGED <<loads, document, state, lite, posted>>, ui' # "drawing"
        PROVE  Single'
    <2>1. \A i \in Nat : Html(i)' => Html(i)
      BY <1>3, <1>0, HtmlSend
    <2>2. OneHtml'
      BY <2>1, <1>3, <1>a DEF OneHtml
    <2>3. QED
      BY <2>2, <1>3, <1>a, <1>c, SamePassed DEF Single
  <1>4. CASE OnLayoutBottom
    <2>1. [what |-> "layout", page |-> None] \in Message
      BY DEF Message
    <2>2. QED
      BY <1>4, <1>3, <2>1 DEF OnLayoutBottom, page, counts
  <1>5. CASE OnDraw
    <2>1. UNCHANGED <<loads, document, state, lite, queue, posted>>
      BY <1>5 DEF OnDraw, fields, page, looper, counts
    <2>2. ui' = "drawing" => state = STATE_LAYOUT_PASS
      BY <1>5, <1>0, StateValues DEF OnDraw, State, States
    <2>3. Stage'
      BY <2>1, <2>2, <1>a DEF Stage, Working
    <2>4. QED
      BY <2>1, <2>3, <1>a, SameHtml, SamePassed DEF Single
  <1>6. ASSUME UNCHANGED <<loads, document, state, lite, queue, posted>>,
               ui' = ui \/ ui' # "drawing"
        PROVE  Single'
    BY <1>6, <1>a, <1>b, <1>c, SameHtml, SamePassed DEF Single
  <1>7. CASE OnLayout \/ DrawDone \/ DestoryNative \/ DestoryDone
    BY <1>7, <1>6 DEF OnLayout, DrawDone, DestoryNative, DestoryDone, fields, page, looper,
                      view, counts
  <1>8. ASSUME NEW size \in Sizes, Framework(size) PROVE Single'
    BY <1>8, <1>6 DEF Framework, fields, page, looper
  <1>9. CASE Destory
    <2>1. UNCHANGED <<loads, document, state, lite, posted>> /\ (ui' = ui \/ ui' # "drawing")
      BY <1>9 DEF Destory, fields, page
    <2>2. queue' = <<>> \/ queue' = queue
      BY <1>9 DEF Destory
    <2>3. OneHtml'
      <3>1. CASE queue' = <<>>
        BY <3>1 DEF OneHtml, Html
      <3>2. QED
        BY <2>1, <2>2, <3>1, <1>a, SameHtml
    <2>4. QED
      BY <2>1, <2>3, <1>a, <1>b, <1>c, SamePassed DEF Single
  <1>10. CASE TakeHtml
    <2>1. /\ lite = "idle" /\ queue # <<>> /\ Head(queue).what = "html" /\ queue' = Tail(queue)
          /\ lite' \in {"loading", "idle"}
          /\ UNCHANGED <<loads, document, state, ui, posted>>
      BY <1>10 DEF TakeHtml, Take, fields, page, counts
    <2>2. Html(1)
      BY <2>1, <1>0 DEF Html
    <2>3. \A i \in Nat : ~Html(i)'
      <3>1. SUFFICES ASSUME NEW i \in Nat, Html(i)' PROVE FALSE
        OBVIOUS
      <3>2. Html(i + 1)
        BY <3>1, <2>1, <1>0, HtmlTail
      <3>3. i + 1 \in Nat /\ i \in 1 .. Len(queue')
        BY <3>1 DEF Html
      <3>4. i + 1 = 1
        BY <3>2, <3>3, <2>2, <1>a DEF OneHtml
      <3>5. QED
        BY <3>3, <3>4
    <2>4. loads # 0 /\ document = None
      BY <2>2, <1>a DEF OneHtml
    <2>5. Stage'
      BY <2>1, <2>4, <1>a DEF Stage, Working
    <2>6. QED
      BY <2>1, <2>3, <2>5, <1>a, SamePassed DEF Single, OneHtml
  <1>11. CASE Loaded
    <2>1. /\ lite = "loading" /\ lite' = "idle"
          /\ posted' = Append(posted, [what |-> "passed", height |-> 0])
          /\ UNCHANGED <<loads, state, ui, queue>>
      BY <1>11 DEF Loaded, view, counts
    <2>2. document' # None
      <3>1. PICK a \in Places : document' =
                [page |-> html, place |-> a, laid |-> FALSE, width |-> 0, height |-> 0]
        BY <1>11 DEF Loaded
      <3>2. document' \in Document
        BY <2>1, <3>1 DEF Document, Carried
      <3>3. QED
        BY <3>2, LiteBrowserAssumption
    <2>3. loads # 0 /\ document = None /\ state = STATE_INIT
      BY <2>1, <1>a DEF Stage
    <2>4. \A i \in Nat : ~Html(i)
      BY <2>1, <1>a DEF OneHtml
    <2>5. OneHtml'
      BY <2>1, <2>4 DEF OneHtml, Html
    <2>6. \A i \in Nat : Passed(i)' => i = Len(posted) + 1
      <3>1. [what |-> "passed", height |-> 0] \in Runnable
        BY DEF Runnable
      <3>2. \A i \in Nat : ~Passed(i)
        BY <2>3, <1>a DEF OnePassed
      <3>3. QED
        BY <2>1, <3>1, <3>2, <1>0, PassedAppend
    <2>7. OnePassed'
      <3>1. ASSUME NEW i \in Nat, NEW j \in Nat, Passed(i)', Passed(j)' PROVE i = j
        BY <3>1, <2>6
      <3>2. QED
        BY <3>1, <2>1, <2>2, <2>3 DEF OnePassed
    <2>8. Stage'
      BY <2>1, <2>2, <2>3, <1>a, StateValues DEF Stage, Working, States
    <2>9. QED
      BY <2>5, <2>7, <2>8 DEF Single
  <1>12. CASE TakeLayout
    <2>1. /\ queue # <<>> /\ queue' = Tail(queue)
          /\ Head(queue).what = "layout" /\ lite = "idle"
          /\ UNCHANGED <<loads, document, state, ui, posted>>
      BY <1>12 DEF TakeLayout, Take, fields, page, counts
    <2>2. \A i \in Nat : Html(i)' => Html(i + 1)
      BY <2>1, <1>0, HtmlTail
    <2>3. \/ lite' = "idle"
          \/ lite' = "equals right" /\ state \in {STATE_HTML_PASS, STATE_RESIZE_LAYOUT}
      <3>1. lite' = IF ptr /\ state >= STATE_HTML_PASS /\ state < STATE_LAYOUT_PASS
                    THEN "equals right" ELSE "idle"
        BY <1>12 DEF TakeLayout
      <3>2. state >= STATE_HTML_PASS /\ state < STATE_LAYOUT_PASS
                => state \in {STATE_HTML_PASS, STATE_RESIZE_LAYOUT}
        BY <1>0, StateValues, SMT DEF State, States
      <3>3. QED
        BY <3>1, <3>2
    <2>4. OneHtml'
      <3>1. ASSUME NEW i \in Nat, Html(i)'
            PROVE  loads' # 0 /\ lite' # "loading" /\ document' = None
        <4>1. Html(i + 1) /\ i + 1 \in Nat
          BY <3>1, <2>2
        <4>2. QED
          BY <4>1, <2>1, <2>3, <1>a DEF OneHtml
      <3>2. ASSUME NEW i \in Nat, NEW j \in Nat, Html(i)', Html(j)' PROVE i = j
        <4>1. Html(i + 1) /\ Html(j + 1) /\ i + 1 \in Nat /\ j + 1 \in Nat
          BY <3>2, <2>2
        <4>2. i + 1 = j + 1
          BY <4>1, <1>a DEF OneHtml
        <4>3. QED
          BY <4>2
      <3>3. QED
        BY <3>1, <3>2 DEF OneHtml
    <2>5. Stage'
      BY <2>1, <2>3, <1>a DEF Stage, Working
    <2>6. QED
      BY <2>1, <2>4, <2>5, <1>a, SamePassed DEF Single
  <1>13. CASE EqualsRight \/ EqualsBottom \/ CopyRight \/ CopyBottom
    <2>1. /\ UNCHANGED <<loads, document, state, ui, posted, queue>>
          /\ Working /\ lite' # "loading" /\ lite' # "resize"
          /\ lite' = "pass" => state = STATE_RESIZE_LAYOUT
      BY <1>13 DEF EqualsRight, EqualsBottom, CopyRight, CopyBottom, Working, fields, page,
                   looper, counts
    <2>2. Stage'
      BY <2>1, <1>a DEF Stage, Working
    <2>3. QED
      BY <2>1, <2>2, <1>a, SameHtml, SamePassed DEF Single
  <1>14. CASE LaidOut
    <2>1. /\ Working /\ lite' \in {"resize", "pass"}
          /\ UNCHANGED <<loads, state, ui, posted, queue>>
      BY <1>14 DEF LaidOut, Working, fields, looper, counts
    <2>2. state \in {STATE_HTML_PASS, STATE_RESIZE_LAYOUT} /\ document # None /\ loads # 0
      BY <2>1, <1>a, StateValues DEF Stage, States
    <2>3. document \in Document
      BY <2>2, <1>0
    <2>4. document' = [document EXCEPT !.laid = TRUE, !.width = preLayoutRect.right,
                                       !.height = Rendered]
      BY <1>14, <2>2 DEF LaidOut, RenderDocument
    <2>5. document' # None
      <3>1. Rendered \in Nat /\ preLayoutRect.right \in Nat
        BY LiteBrowserAssumption DEF TypeOK, Rendered, Document, Rect
      <3>2. document' \in Document
        BY <2>3, <2>4, <3>1 DEF Document
      <3>3. QED
        BY <3>2, LiteBrowserAssumption
    <2>6. document'.laid
      BY <2>3, <2>4 DEF Document
    <2>7. OneHtml'
      <3>1. \A i \in Nat : ~Html(i)
        BY <2>2, <1>a DEF OneHtml
      <3>2. QED
        BY <2>1, <3>1 DEF OneHtml, Html
    <2>8. OnePassed'
      BY <2>1, <2>5, <1>a DEF OnePassed, Passed
    <2>9. Stage'
      BY <2>1, <2>2, <2>5, <2>6, <1>a, StateValues DEF Stage, Working, States
    <2>10. QED
      BY <2>7, <2>8, <2>9 DEF Single
  <1>15. CASE Resize \/ Pass
    <2>1. /\ lite \in {"resize", "pass"} /\ lite' = "idle"
          /\ state' \in {STATE_RESIZE_LAYOUT, STATE_LAYOUT_PASS}
          /\ UNCHANGED <<loads, document, ui, queue>>
      BY <1>15 DEF Resize, Pass, page, looper, counts
    <2>2. state \in {STATE_HTML_PASS, STATE_RESIZE_LAYOUT} /\ document # None /\ document.laid
      BY <2>1, <1>a DEF Stage, Working
    <2>3. ui # "drawing"
      BY <2>2, <1>a, StateValues DEF Stage, States
    <2>4. \A i \in Nat : ~Passed(i)
      BY <2>2, <1>a, StateValues DEF OnePassed, States
    <2>5. \A i \in Nat : ~Passed(i)'
      <3>1. CASE Resize
        <4>1. document \in Document
          BY <2>2, <1>0
        <4>2. [what |-> "resize", height |-> document.height] \in Runnable
          BY <4>1 DEF Document, Runnable
        <4>3. posted' = Append(posted, [what |-> "resize", height |-> document.height])
          BY <3>1 DEF Resize
        <4>4. QED
          BY <2>4, <4>2, <4>3, <1>0, PassedAppend
      <3>2. CASE Pass
        BY <3>2, <2>4 DEF Pass, looper, Passed
      <3>3. QED
        BY <3>1, <3>2, <1>15
    <2>6. Stage'
      BY <2>1, <2>2, <2>3, <1>a DEF Stage, Working
    <2>7. QED
      BY <2>1, <2>5, <2>6, <1>a, SameHtml DEF Single, OnePassed
  <1>16. CASE UNCHANGED vars
    BY <1>16, <1>6 DEF vars, fields, page, looper, counts
  <1>17. QED
    BY <1>1, <1>2, <1>4, <1>5, <1>7, <1>8, <1>9, <1>10, <1>11, <1>12, <1>13, <1>14, <1>15, <1>16
       DEF Next, UiStep, LiteStep

LEMMA InitInv == Init => Inv
  <1> SUFFICES ASSUME Init PROVE Inv
    OBVIOUS
  <1>1. TypeOK
    <2>1. /\ use \in Uses /\ ptr \in BOOLEAN /\ quit \in BOOLEAN /\ native \in {"live", "freed"}
          /\ document \in Document \union {None} /\ html \in Pages \union {None}
          /\ parent \in Sizes /\ height \in Nat \union {None}
          /\ loads \in Nat /\ layouts \in Nat /\ destroys \in Nat /\ calls \in Nat
      BY DEF Init
    <2>2. state \in State
      BY DEF Init, State
    <2>3. layoutRect \in Rect /\ preLayoutRect \in Rect
      BY DEF Init, NoRect, Rect
    <2>4. pool \in [Places -> Pages \union {None}]
      BY DEF Init
    <2>5. queue \in Seq(Message) /\ posted \in Seq(Runnable)
      BY QueueTypes DEF Init
    <2>6. lite \in AtLite /\ ui \in AtUi /\ wanted \subseteq {"layout", "draw"}
      BY DEF Init, AtLite, AtUi
    <2>7. shown \in Drawing
      BY DEF Init, Blank, Drawing
    <2>8. QED
      BY <2>1, <2>2, <2>3, <2>4, <2>5, <2>6, <2>7 DEF TypeOK
  <1>2. Carried /\ Life
    BY DEF Init, Carried, Life
  <1>3. Single
    BY StateValues DEF Init, Single, OneHtml, OnePassed, Stage, Html, Passed, Working, States
  <1>4. QED
    BY <1>1, <1>2, <1>3 DEF Inv

LEMMA StepInv == Inv /\ [Next]_vars => Inv'
  <1> SUFFICES ASSUME Inv, [Next]_vars PROVE Inv'
    OBVIOUS
  <1>1. UNCHANGED use
    BY DEF Next, UiStep, LiteStep, RunPosted, OnLayout, OnLayoutBottom, OnDraw, DrawDone,
           DestoryNative, DestoryDone, TakeHtml, Loaded, TakeLayout, EqualsRight, EqualsBottom,
           CopyRight, CopyBottom, LaidOut, Resize, Pass, LoadHtml, Framework, Destory, vars
  <1>2. QED
    BY <1>1, TypeStep, LifeStep, SingleStep DEF Inv

LEMMA Invariance == Spec => []Inv
  BY InitInv, StepInv, PTL DEF Spec

(* Every variable keeps its type; that the structure is never freed twice  *)
(* is part of it.                                                          *)
THEOREM TypeCorrect == Spec => []TypeOK
  BY Invariance, PTL DEF Inv

(* Whatever destory() interrupts, no message and no drawing uses the       *)
(* native structure after it is freed.                                     *)
THEOREM NoUseAfterFree == Spec => []NativeAlive
  <1>1. Inv => NativeAlive
    BY DEF Inv, Life, TypeOK, NativeAlive
  <1>2. QED
    BY <1>1, Invariance, PTL

(* A view that loads one page draws only what has been laid out, and never *)
(* while the lite thread changes it, although nothing is locked.           *)
THEOREM DrawsAreFinished == Spec => []DrawsFinished
  <1>1. Inv => DrawsFinished
    <2> SUFFICES ASSUME Inv, use.loads = 1, ui = "drawing"
                 PROVE  /\ document # None /\ document.laid
                        /\ lite \notin {"loading", "copy right", "copy bottom", "laying out"}
      BY DEF DrawsFinished
    <2>1. Stage
      BY DEF Inv, Single
    <2>2. state = STATE_LAYOUT_PASS
      BY <2>1 DEF Stage
    <2>3. document # None /\ document.laid /\ lite # "loading"
      BY <2>1, <2>2 DEF Stage
    <2>4. ~Working
      BY <2>1, <2>2, StateValues DEF Stage, States
    <2>5. QED
      BY <2>3, <2>4 DEF Working
  <1>2. QED
    BY <1>1, Invariance, PTL

-----------------------------------------------------------------------------
(* How many of the messages, or of the runnables, are of a kind. *)
Kind(q, w) == {i \in 1 .. Len(q) : q[i].what = w}
Count(q, w) == Cardinality(Kind(q, w))

LEMMA CountType ==
    ASSUME NEW S, NEW q \in Seq(S), NEW w
    PROVE  IsFiniteSet(Kind(q, w)) /\ Count(q, w) \in Nat
  <1>1. Len(q) \in Nat /\ IsFiniteSet(1 .. Len(q))
    BY FS_Interval
  <1>2. IsFiniteSet(Kind(q, w))
    BY <1>1, FS_Subset DEF Kind
  <1> QED BY <1>2, FS_CardinalityType DEF Count

LEMMA CountAppend ==
    ASSUME NEW S, NEW q \in Seq(S), NEW m \in S, NEW w
    PROVE  Count(Append(q, m), w) = Count(q, w) + (IF m.what = w THEN 1 ELSE 0)
  <1>1. /\ Len(q) \in Nat /\ Len(Append(q, m)) = Len(q) + 1
        /\ Append(q, m)[Len(q) + 1] = m
        /\ \A i \in 1 .. Len(q) : Append(q, m)[i] = q[i]
    OBVIOUS
  <1>2. Len(q) + 1 \notin Kind(q, w)
    BY <1>1 DEF Kind
  <1>3. Kind(Append(q, m), w) = IF m.what = w THEN Kind(q, w) \union {Len(q) + 1} ELSE Kind(q, w)
    BY <1>1 DEF Kind
  <1>4. CASE m.what = w
    BY <1>2, <1>3, <1>4, CountType, FS_AddElement DEF Count
  <1>5. CASE m.what # w
    BY <1>3, <1>5, CountType DEF Count
  <1> QED BY <1>4, <1>5

LEMMA CountTail ==
    ASSUME NEW S, NEW q \in Seq(S), q # <<>>, NEW w
    PROVE  Count(Tail(q), w) + (IF Head(q).what = w THEN 1 ELSE 0) <= Count(q, w)
  <1> DEFINE f == [i \in Kind(Tail(q), w) |-> i + 1]
             R == Kind(q, w) \ {1}
  <1>1. /\ Len(q) \in Nat /\ Len(q) >= 1 /\ Len(Tail(q)) = Len(q) - 1 /\ Tail(q) \in Seq(S)
        /\ \A i \in 1 .. Len(q) - 1 : Tail(q)[i] = q[i + 1]
        /\ Head(q) = q[1]
    OBVIOUS
  <1>2. IsFiniteSet(Kind(q, w)) /\ Count(q, w) \in Nat /\ Count(Tail(q), w) \in Nat
    BY <1>1, CountType
  <1>3. /\ IsFiniteSet(R)
        /\ Cardinality(R) = IF 1 \in Kind(q, w) THEN Count(q, w) - 1 ELSE Count(q, w)
    BY <1>2, FS_RemoveElement DEF Count
  <1>4. \A i \in Kind(Tail(q), w) : i \in Nat /\ i + 1 \in R
    BY <1>1 DEF Kind
  <1>5. f \in Injection(Kind(Tail(q), w), R)
    BY <1>4 DEF Injection, IsInjective
  <1>6. Count(Tail(q), w) <= Cardinality(R)
    BY <1>3, <1>5, FS_Injection DEF Count
  <1>7. 1 \in Kind(q, w) <=> Head(q).what = w
    BY <1>1 DEF Kind
  <1> QED BY <1>2, <1>3, <1>6, <1>7

LEMMA CountNone == \A w : Count(<<>>, w) = 0
  <1>1. \A w : Kind(<<>>, w) = {}
    BY DEF Kind
  <1> QED BY <1>1, FS_EmptySet DEF Count

-----------------------------------------------------------------------------
(* The layouts that the state still allows, for a page that has not been   *)
(* laid out since it was passed two, while the view grows one ...          *)
Due(s) == IF s = STATE_HTML_PASS THEN 2 ELSE IF s = STATE_RESIZE_LAYOUT THEN 1 ELSE 0

(* ... and what the lite thread, at l, has already spent of them.          *)
Credit(l, s) ==
    IF l = "pass" THEN 0
    ELSE IF l = "resize" THEN 1
    ELSE IF l = "laying out" THEN IF s = STATE_HTML_PASS THEN 1 ELSE 0
    ELSE Due(s)

(* Pages asked for that have not come to the UI thread's state. *)
Loading(l) == IF l = "loading" THEN 1 ELSE 0
Htmls(q) == Count(q, "html")
Passes(r) == Count(r, "passed")
Under(q, r, l) == Htmls(q) + Passes(r) + Loading(l)

Budget ==
    /\ Working => state \in {STATE_HTML_PASS, STATE_RESIZE_LAYOUT}
    /\ calls + Credit(lite, state) + 2 * Under(queue, posted, lite) <= 2 * loads

LEMMA BudgetStep == TypeOK /\ TypeOK' /\ Carried /\ Budget /\ [Next]_vars => Budget'
  <1> SUFFICES ASSUME TypeOK, TypeOK', Carried, Budget, [Next]_vars PROVE Budget'
    OBVIOUS
  <1>0. /\ queue \in Seq(Message) /\ posted \in Seq(Runnable) /\ state \in State
    BY DEF TypeOK
  <1>a. loads \in Nat /\ calls \in Nat /\ loads' \in Nat /\ calls' \in Nat
    BY DEF TypeOK
  <1>1. /\ Htmls(queue) \in Nat /\ Passes(posted) \in Nat /\ Loading(lite) \in {0, 1}
        /\ Htmls(queue') \in Nat /\ Passes(posted') \in Nat /\ Loading(lite') \in {0, 1}
        /\ Credit(lite, state) \in 0 .. 2 /\ Credit(lite', state') \in 0 .. 2
    <2>1. /\ Htmls(queue) \in Nat /\ Passes(posted) \in Nat
          /\ Htmls(queue') \in Nat /\ Passes(posted') \in Nat
      BY <1>0, CountType DEF TypeOK, Htmls, Passes
    <2> QED BY <2>1 DEF Credit, Due, Loading
  <1>2. calls + Credit(lite, state) + 2 * Under(queue, posted, lite) <= 2 * loads
    BY DEF Budget
  <1>b. Working => state \in {STATE_HTML_PASS, STATE_RESIZE_LAYOUT}
    BY DEF Budget
  <1>3. ASSUME Working' => state' \in {STATE_HTML_PASS, STATE_RESIZE_LAYOUT},
               calls' + Credit(lite', state') + 2 * Under(queue', posted', lite') <= 2 * loads'
        PROVE  Budget'
    BY <1>3 DEF Budget
  <1>4. ASSUME UNCHANGED <<state, lite, calls, posted>>,
               \/ Htmls(queue') = Htmls(queue)
               \/ Htmls(queue') <= Htmls(queue) + 1 /\ loads' = loads + 1
               \/ Htmls(queue') = 0,
               loads' = loads \/ loads' = loads + 1
        PROVE  Budget'
    <2>1. /\ Credit(lite', state') = Credit(lite, state) /\ Passes(posted') = Passes(posted)
          /\ Loading(lite') = Loading(lite) /\ (Working' <=> Working)
      BY <1>4 DEF Credit, Due, Loading, Working
    <2>2. calls' + Credit(lite', state') + 2 * Under(queue', posted', lite') <= 2 * loads'
      <3>1. /\ calls' = calls /\ Credit(lite', state') = Credit(lite, state)
            /\ Passes(posted') = Passes(posted) /\ Loading(lite') = Loading(lite)
        BY <1>4, <2>1
      <3>2. \/ Htmls(queue') <= Htmls(queue)
            \/ Htmls(queue') <= Htmls(queue) + 1 /\ loads' = loads + 1
        BY <1>1, <1>4
      <3>3. loads' = loads \/ loads' = loads + 1
        BY <1>4
      <3> QED BY <1>a, <1>1, <1>2, <3>1, <3>2, <3>3 DEF Under
    <2> QED BY <1>b, <1>3, <1>4, <2>1, <2>2
  <1>5. ASSUME NEW m \in Message, Send(m)
        PROVE  /\ Htmls(queue') <= Htmls(queue) + 1
               /\ m.what # "html" => Htmls(queue') = Htmls(queue)
    <2>1. CASE quit
      BY <1>1, <1>5, <2>1 DEF Send, Htmls
    <2>2. CASE ~quit
      BY <1>0, <1>1, <1>5, <2>2, CountAppend DEF Send, Htmls
    <2> QED BY <2>1, <2>2
  <1>6. ASSUME NEW p \in Pages \union {None}, LoadHtml(p) PROVE Budget'
    <2>1. [what |-> "html", page |-> p] \in Message
      BY DEF Message
    <2>2. Htmls(queue') <= Htmls(queue) + 1
      BY <1>5, <1>6, <2>1 DEF LoadHtml
    <2> QED BY <1>4, <1>6, <2>2 DEF LoadHtml
  <1>7. CASE RunPosted
    <2>1. /\ posted # <<>> /\ posted' = Tail(posted)
          /\ UNCHANGED <<queue, lite, calls, loads>>
          /\ IF Head(posted).what = "passed" THEN state' = STATE_HTML_PASS ELSE state' = state
      BY <1>7 DEF RunPosted, counts
    <2>2. Passes(posted') + (IF Head(posted).what = "passed" THEN 1 ELSE 0) <= Passes(posted)
      BY <1>0, <2>1, CountTail DEF Passes
    <2>3. /\ Htmls(queue') = Htmls(queue) /\ Loading(lite') = Loading(lite)
          /\ calls' = calls /\ loads' = loads
      BY <2>1 DEF Loading
    <2>5. Working' => state' \in {STATE_HTML_PASS, STATE_RESIZE_LAYOUT}
      BY <1>b, <2>1 DEF Working
    <2>4. Credit(lite', state') <=
              Credit(lite, state) + (IF Head(posted).what = "passed" THEN 2 ELSE 0)
      <3>1. CASE Head(posted).what = "passed"
        BY <1>1, <3>1
      <3>2. CASE Head(posted).what # "passed"
        <4>1. Credit(lite', state') = Credit(lite, state)
          BY <2>1, <3>2
        <4> QED BY <1>1, <3>2, <4>1
      <3> QED BY <3>1, <3>2
    <2>6. calls' + Credit(lite', state') + 2 * Under(queue', posted', lite') <= 2 * loads'
      BY <1>a, <1>1, <1>2, <2>2, <2>3, <2>4 DEF Under
    <2> QED BY <1>3, <2>5, <2>6
  <1>8. CASE OnLayoutBottom
    <2>1. [what |-> "layout", page |-> None] \in Message
      BY DEF Message
    <2>2. Htmls(queue') = Htmls(queue)
      BY <1>5, <1>8, <2>1 DEF OnLayoutBottom
    <2> QED BY <1>4, <1>8, <2>2 DEF OnLayoutBottom, counts
  <1>9. CASE OnLayout \/ OnDraw \/ DrawDone \/ DestoryNative \/ DestoryDone \/ UNCHANGED vars
    <2>1. UNCHANGED <<state, lite, calls, posted, queue, loads>>
      BY <1>9 DEF OnLayout, OnDraw, DrawDone, DestoryNative, DestoryDone, vars, fields,
                  looper, counts
    <2> QED BY <1>4, <2>1 
  <1>10. ASSUME NEW size \in Sizes, Framework(size) PROVE Budget'
    BY <1>4, <1>10 DEF Framework, fields, looper
  <1>11. CASE Destory
    <2>1. Htmls(queue') = Htmls(queue) \/ Htmls(queue') = 0
      BY <1>11, CountNone DEF Destory, Htmls
    <2> QED BY <1>4, <1>11, <2>1 DEF Destory, fields
  <1>12. CASE TakeHtml \/ TakeLayout
    <2>1. /\ lite = "idle" /\ queue # <<>> /\ queue' = Tail(queue)
          /\ UNCHANGED <<state, calls, loads, posted>>
          /\ lite' = "loading" => Head(queue).what = "html"
          /\ \/ lite' \in {"idle", "loading"}
             \/ lite' = "equals right" /\ state >= 4 /\ state < 8
      BY <1>12 DEF TakeHtml, TakeLayout, Take, fields, counts, STATE_HTML_PASS,
                   STATE_LAYOUT_PASS
    <2>2. Htmls(queue') + (IF Head(queue).what = "html" THEN 1 ELSE 0) <= Htmls(queue)
      BY <1>0, <2>1, CountTail DEF Htmls
    <2>3. /\ Passes(posted') = Passes(posted) /\ Loading(lite) = 0 /\ calls' = calls
          /\ loads' = loads /\ Credit(lite', state') = Credit(lite, state)
      BY <2>1 DEF Loading, Credit, Due
    <2>4. Loading(lite') <= IF Head(queue).what = "html" THEN 1 ELSE 0
      <3>1. CASE Head(queue).what = "html"
        BY <1>1, <3>1
      <3>2. CASE Head(queue).what # "html"
        <4>1. Loading(lite') = 0
          BY <2>1, <3>2 DEF Loading
        <4> QED BY <3>2, <4>1
      <3> QED BY <3>1, <3>2
    <2>5. Working' => state' \in {STATE_HTML_PASS, STATE_RESIZE_LAYOUT}
      <3>1. state \in {0, 4, 6, 8}
        BY DEF TypeOK, State, STATE_INIT, STATE_HTML_PASS, STATE_RESIZE_LAYOUT,
               STATE_LAYOUT_PASS
      <3>2. Working' => state >= 4 /\ state < 8 /\ state' = state
        BY <2>1 DEF Working
      <3> QED BY <3>1, <3>2 DEF STATE_HTML_PASS, STATE_RESIZE_LAYOUT
    <2>6. calls' + Credit(lite', state') + 2 * Under(queue', posted', lite') <= 2 * loads'
      BY <1>a, <1>1, <1>2, <2>2, <2>3, <2>4 DEF Under
    <2> QED BY <1>3, <2>5, <2>6
  <1>13. CASE Loaded
    <2>1. /\ lite = "loading" /\ lite' = "idle" /\ UNCHANGED <<state, calls, loads, queue>>
          /\ posted' = Append(posted, [what |-> "passed", height |-> 0])
      BY <1>13 DEF Loaded, counts
    <2>2. [what |-> "passed", height |-> 0] \in Runnable
      BY DEF Runnable
    <2>3. Passes(posted') <= Passes(posted) + 1
      BY <1>0, <1>1, <2>1, <2>2, CountAppend DEF Passes
    <2>4. /\ Htmls(queue') = Htmls(queue) /\ Loading(lite) = 1 /\ Loading(lite') = 0
          /\ Credit(lite', state') = Credit(lite, state) /\ calls' = calls
          /\ loads' = loads
      BY <2>1 DEF Loading, Credit, Due
    <2>5. ~Working'
      BY <2>1 DEF Working
    <2>6. calls' + Credit(lite', state') + 2 * Under(queue', posted', lite') <= 2 * loads'
      BY <1>a, <1>1, <1>2, <2>3, <2>4 DEF Under
    <2> QED BY <1>3, <2>5, <2>6
  <1>14. CASE EqualsRight \/ EqualsBottom \/ CopyRight \/ CopyBottom \/ LaidOut \/ Pass
    <2>1. /\ UNCHANGED <<loads, queue, posted>> /\ lite # "loading" /\ lite' # "loading" /\ Working
          /\ ~Working' \/ state' = state
      BY <1>14 DEF EqualsRight, EqualsBottom, CopyRight, CopyBottom, LaidOut, Pass,
                   Working, fields, looper, counts
    <2>2. /\ Htmls(queue') = Htmls(queue) /\ Passes(posted') = Passes(posted)
          /\ Loading(lite) = 0 /\ Loading(lite') = 0
      BY <2>1 DEF Loading
    <2>3. calls' + Credit(lite', state') <= calls + Credit(lite, state)
      <3>1. state \in {STATE_HTML_PASS, STATE_RESIZE_LAYOUT}
        BY <1>b, <2>1
      <3>2. CASE EqualsRight \/ EqualsBottom
        <4>1. /\ lite \in {"equals right", "equals bottom"} /\ state' = state /\ calls' = calls
              /\ \/ lite' \in {"equals bottom", "copy right", "idle"}
                 \/ lite' = "pass"
          BY <3>2 DEF EqualsRight, EqualsBottom, fields
        <4>2. Credit(lite, state) = Due(state) /\ Credit(lite', state') \in {0, Due(state)}
          BY <4>1 DEF Credit
        <4>3. /\ calls' = calls
              /\ (Credit(lite', state') = 0 \/ Credit(lite', state') = Credit(lite, state))
          BY <4>1, <4>2
        <4> QED BY <1>1, <1>a, <4>3
      <3>3. CASE CopyRight \/ CopyBottom
        <4>1. CASE CopyRight
          <5>1. calls' = calls /\ Credit(lite', state') = Credit(lite, state)
            BY <4>1 DEF CopyRight, Credit
          <5> QED BY <1>1, <1>a, <5>1
        <4>2. CASE CopyBottom
          <5>1. state' = state /\ lite = "copy bottom" /\ lite' = "laying out"
            BY <4>2 DEF CopyBottom
          <5>2. /\ Credit(lite, state) = IF state = STATE_HTML_PASS THEN 2 ELSE 1
                /\ Credit(lite', state') = IF state = STATE_HTML_PASS THEN 1 ELSE 0
            BY <3>1, <5>1 DEF Credit, Due
          <5>3. calls' = calls + 1
            BY <4>2 DEF CopyBottom
          <5> QED BY <1>a, <5>2, <5>3 DEF STATE_HTML_PASS
        <4> QED BY <3>3, <4>1, <4>2
      <3>4. CASE LaidOut
        <4>1. lite = "laying out" /\ state' = state /\ calls' = calls
          BY <3>4 DEF LaidOut, fields
        <4>2. lite' = "pass" \/ (lite' = "resize" /\ state # STATE_RESIZE_LAYOUT)
          BY <3>4 DEF LaidOut, fields
        <4>3. calls' = calls
          BY <4>1
        <4>4. \/ Credit(lite', state') = 0
              \/ Credit(lite', state') = 1 /\ Credit(lite, state) = 1
          BY <3>1, <4>1, <4>2 DEF Credit
        <4> QED BY <1>1, <1>a, <4>3, <4>4
      <3>5. CASE Pass
        BY <1>a, <3>1, <3>5 DEF Pass, Credit, Due, STATE_HTML_PASS, STATE_RESIZE_LAYOUT,
                                 STATE_LAYOUT_PASS
      <3> QED BY <1>14, <3>2, <3>3, <3>4, <3>5
    <2>4. Working' => state' \in {STATE_HTML_PASS, STATE_RESIZE_LAYOUT}
      BY <1>b, <2>1
    <2>5. loads' = loads
      BY <2>1
    <2>6. calls' + Credit(lite', state') + 2 * Under(queue', posted', lite') <= 2 * loads'
      BY <1>a, <1>1, <1>2, <2>2, <2>3, <2>5 DEF Under
    <2> QED BY <1>3, <2>4, <2>6
  <1>15. CASE Resize
    <2>1. /\ lite = "resize" /\ lite' = "idle" /\ state' = STATE_RESIZE_LAYOUT
          /\ UNCHANGED <<calls, loads, queue>>
          /\ posted' = Append(posted, [what |-> "resize", height |-> document.height])
      BY <1>15 DEF Resize, counts
    <2>2. Passes(posted') = Passes(posted)
      <3>1. [what |-> "resize", height |-> document.height] \in Runnable
        BY <2>1 DEF TypeOK, Carried, Document, Runnable
      <3> QED BY <1>0, <1>1, <2>1, <3>1, CountAppend DEF Passes
    <2>3. /\ Htmls(queue') = Htmls(queue) /\ Loading(lite) = 0 /\ Loading(lite') = 0
          /\ Credit(lite, state) = 1 /\ Credit(lite', state') = 1 /\ calls' = calls /\ loads' = loads
      BY <2>1 DEF Loading, Credit, Due, STATE_HTML_PASS, STATE_RESIZE_LAYOUT
    <2>4. ~Working'
      BY <2>1 DEF Working
    <2>5. calls' + Credit(lite', state') + 2 * Under(queue', posted', lite') <= 2 * loads'
      BY <1>a, <1>1, <1>2, <2>2, <2>3 DEF Under
    <2> QED BY <1>3, <2>4, <2>5
  <1> QED BY <1>6, <1>7, <1>8, <1>9, <1>10, <1>11, <1>12, <1>13, <1>14, <1>15
          DEF Next, UiStep, LiteStep

LEMMA BudgetInit == Init => Budget
  <1> SUFFICES ASSUME Init PROVE Budget
    OBVIOUS
  <1>1. Htmls(queue) = 0 /\ Passes(posted) = 0 /\ Loading(lite) = 0
    BY CountNone DEF Init, Htmls, Passes, Loading
  <1>2. Credit(lite, state) = 0 /\ calls = 0 /\ loads = 0 /\ ~Working
    BY DEF Init, Credit, Due, Working, STATE_INIT, STATE_HTML_PASS, STATE_RESIZE_LAYOUT
  <1> QED BY <1>1, <1>2 DEF Budget, Under

(* A page that never fits is laid out twice and no more, however often it  *)
(* is loaded and whatever layouts the framework asks for in between.       *)
THEOREM GrowsOnce == Spec => []LayoutsBounded
  <1>1. Inv /\ Budget => LayoutsBounded
    <2> SUFFICES ASSUME Inv, Budget PROVE LayoutsBounded
      OBVIOUS
    <2>1. loads \in Nat /\ calls \in Nat
      BY DEF Inv, TypeOK
    <2>2. Htmls(queue) \in Nat /\ Passes(posted) \in Nat
      BY CountType DEF Inv, TypeOK, Htmls, Passes
    <2>3. Loading(lite) \in {0, 1} /\ Credit(lite, state) \in 0 .. 2
      BY DEF Loading, Credit, Due
    <2>4. calls + Credit(lite, state) + 2 * Under(queue, posted, lite) <= 2 * loads
      BY DEF Budget
    <2> QED BY <2>1, <2>2, <2>3, <2>4 DEF LayoutsBounded, Under
  <1>2. Inv /\ Inv' /\ Budget /\ [Next]_vars => Budget'
    BY BudgetStep DEF Inv
  <1> QED BY <1>1, <1>2, BudgetInit, Invariance, PTL DEF Spec

-----------------------------------------------------------------------------
(* Of a view that loads a page only once the one before is there: a page   *)
(* to load is the first message, and from loadHtml() until it is loaded    *)
(* the pool knows at most the text of the document still shown, where that *)
(* is; and it never knows another text for the place of the document.      *)
Pending == lite = "loading" \/ \E i \in Nat : Html(i)
First == \A i \in Nat : Html(i) => i = 1 /\ lite = "idle"
OnlyShown == \A a \in Places : pool[a] # None =>
                 document # None /\ a = document.place /\ pool[a] = document.page
OwnText == document # None => pool[document.place] \in {None, document.page}
Fresh == First /\ (Pending => OnlyShown) /\ OwnText /\ shown.text = shown.page

LEMMA FreshStep == TypeOK /\ Carried /\ use.patient /\ Fresh /\ [Next]_vars => Fresh'
  <1> SUFFICES ASSUME TypeOK, Carried, use.patient, Fresh, [Next]_vars PROVE Fresh'
    OBVIOUS
  <1>0. /\ queue \in Seq(Message) /\ document \in Document \union {None}
        /\ pool \in [Places -> Pages \union {None}] /\ html \in Pages \union {None}
    BY DEF TypeOK
  <1>1. First /\ (Pending => OnlyShown) /\ OwnText /\ shown.text = shown.page
    BY DEF Fresh
  <1>2. ASSUME UNCHANGED <<pool, document, shown>>, First', Pending' => Pending PROVE Fresh'
    BY <1>1, <1>2 DEF Fresh, OnlyShown, OwnText
  <1>3. ASSUME UNCHANGED <<queue, lite>> PROVE First' /\ (Pending' <=> Pending)
    BY <1>1, <1>3 DEF First, Pending, Html
  <1>4. ASSUME NEW p \in Pages \union {None}, LoadHtml(p) PROVE Fresh'
    <2>1. /\ queue = <<>> /\ lite = "idle" /\ lite' = lite /\ UNCHANGED <<document, shown>>
          /\ pool' = [a \in Places |-> None]
      BY <1>4 DEF LoadHtml, page, view
    <2>2. [what |-> "html", page |-> p] \in Message /\ Send([what |-> "html", page |-> p])
      BY <1>4 DEF Message, LoadHtml
    <2>3. \A i \in Nat : Html(i)' => i = 1
      BY <1>0, <2>1, <2>2, HtmlSend DEF Html
    <2>4. OnlyShown'
      BY <2>1 DEF OnlyShown
    <2>5. OwnText'
      BY <1>0, <2>1 DEF OwnText, Document
    <2> QED BY <1>1, <2>1, <2>3, <2>4, <2>5 DEF Fresh, First
  <1>5. CASE OnLayoutBottom
    <2>1. /\ UNCHANGED <<lite, pool, document, shown>>
          /\ Send([what |-> "layout", page |-> None])
      BY <1>5 DEF OnLayoutBottom, page
    <2>2. [what |-> "layout", page |-> None] \in Message
      BY DEF Message
    <2>3. \A i \in Nat : Html(i)' => Html(i)
      BY <1>0, <2>1, <2>2, HtmlSend
    <2> QED BY <1>1, <1>2, <2>1, <2>3 DEF First, Pending
  <1>6. CASE Destory
    <2>1. UNCHANGED <<lite, pool, document, shown>> /\ (queue' = <<>> \/ queue' = queue)
      BY <1>6 DEF Destory, fields, page, view
    <2>2. \A i \in Nat : Html(i)' => Html(i)
      BY <2>1 DEF Html
    <2> QED BY <1>1, <1>2, <2>1, <2>2 DEF First, Pending
  <1>7. CASE DrawDone
    <2>1. UNCHANGED <<queue, lite, document>>
      BY <1>7 DEF DrawDone, page, looper
    <2>2. CASE document = None
      BY <1>1, <1>2, <1>3, <1>7, <2>1, <2>2 DEF DrawDone
    <2>3. CASE document # None
      <3>1. /\ shown'.page = document.page /\ shown'.text = Text(document)
            /\ pool' = [pool EXCEPT ![document.place] = Text(document)]
        BY <1>7, <2>3 DEF DrawDone
      <3>2. Text(document) = document.page
        BY <1>1, <2>3 DEF OwnText, Text
      <3>3. document.place \in Places
        BY <1>0, <2>3 DEF Document
      <3>4. /\ pool'[document.place] = document.page
            /\ \A a \in Places \ {document.place} : pool'[a] = pool[a]
        BY <1>0, <3>1, <3>2, <3>3
      <3>5. OwnText' /\ (OnlyShown => OnlyShown')
        BY <2>1, <2>3, <3>4 DEF OwnText, OnlyShown
      <3> QED BY <1>1, <1>3, <2>1, <3>1, <3>2, <3>5 DEF Fresh
    <2> QED BY <2>2, <2>3
  <1>8. CASE TakeHtml \/ TakeLayout
    <2>1. /\ lite = "idle" /\ queue # <<>> /\ queue' = Tail(queue) /\ UNCHANGED <<pool, document, shown>>
          /\ lite' = "loading" => Head(queue).what = "html"
      BY <1>8 DEF TakeHtml, TakeLayout, Take, fields, page, view
    <2>2. \A i \in Nat : ~Html(i)'
      <3> SUFFICES ASSUME NEW i \in Nat, Html(i)' PROVE FALSE
        OBVIOUS
      <3>1. Html(i + 1) /\ i \in 1 .. Len(queue')
        BY <1>0, <2>1, HtmlTail DEF Html
      <3>2. i + 1 = 1
        BY <1>1, <3>1 DEF First
      <3> QED BY <3>1, <3>2
    <2>3. lite' = "loading" => Html(1)
      BY <1>0, <2>1 DEF Html
    <2> QED BY <1>2, <2>1, <2>2, <2>3 DEF First, Pending
  <1>9. ASSUME lite # "idle" PROVE \A i \in Nat : ~Html(i)
    BY <1>1, <1>9 DEF First
  <1>10. CASE Loaded
    <2>1. PICK a \in Places :
             /\ document # None => a # document.place
             /\ document' = [page |-> html, place |-> a, laid |-> FALSE, width |-> 0, height |-> 0]
             /\ pool' = [pool EXCEPT ![a] = IF @ = None THEN html ELSE @]
      BY <1>10 DEF Loaded
    <2>2. lite = "loading" /\ lite' = "idle" /\ UNCHANGED <<queue, shown>>
      BY <1>10 DEF Loaded, view
    <2>3. \A i \in Nat : ~Html(i)'
      BY <1>9, <2>2 DEF Html
    <2>4. pool[a] = None
      BY <1>1, <2>1, <2>2 DEF Pending, OnlyShown
    <2>5. pool'[a] = html
      BY <1>0, <2>1, <2>4
    <2>6. OwnText'
      BY <2>1, <2>5 DEF OwnText
    <2> QED BY <1>1, <2>2, <2>3, <2>6 DEF Fresh, First, Pending
  <1>11. CASE LaidOut
    <2>1. /\ lite = "laying out" /\ lite' # "loading" /\ UNCHANGED <<queue, pool, shown>>
          /\ RenderDocument
      BY <1>11 DEF LaidOut, fields, looper, view
    <2>2. \A i \in Nat : ~Html(i)'
      BY <1>9, <2>1 DEF Html
    <2>3. OwnText'
      BY <1>0, <1>1, <2>1, LiteBrowserAssumption DEF OwnText, RenderDocument, Document
    <2> QED BY <1>1, <2>1, <2>2, <2>3 DEF Fresh, First, Pending
  <1>12. CASE EqualsRight \/ EqualsBottom \/ CopyRight \/ CopyBottom \/ Resize \/ Pass
    <2>1. /\ lite # "idle" /\ lite' # "loading" /\ UNCHANGED <<queue, pool, document, shown>>
      BY <1>12 DEF EqualsRight, EqualsBottom, CopyRight, CopyBottom, Resize, Pass,
                   fields, page, looper, view
    <2>2. \A i \in Nat : ~Html(i)'
      BY <1>9, <2>1 DEF Html
    <2> QED BY <1>2, <2>1, <2>2 DEF First, Pending
  <1>13. CASE RunPosted \/ OnLayout \/ OnDraw \/ DestoryNative \/ DestoryDone \/ UNCHANGED vars
    <2>1. UNCHANGED <<queue, lite, pool, document, shown>>
      BY <1>13 DEF RunPosted, OnLayout, OnDraw, DestoryNative, DestoryDone, vars,
                   fields, page, looper, view
    <2> QED BY <1>2, <1>3, <2>1
  <1>14. ASSUME NEW size \in Sizes, Framework(size) PROVE Fresh'
    <2>1. UNCHANGED <<queue, lite, pool, document, shown>>
      BY <1>14 DEF Framework, fields, page, looper
    <2> QED BY <1>2, <1>3, <2>1
  <1> QED BY <1>4, <1>5, <1>6, <1>7, <1>8, <1>10, <1>11, <1>12, <1>13, <1>14
          DEF Next, UiStep, LiteStep

(* A text is known by its place alone, and a place is used again; a view   *)
(* that waits for one page before it loads the next never draws the text   *)
(* of another, however many it loads and wherever they are put.            *)
THEOREM NoStaleText == Spec => []TextIsPages
  <1>1. Init /\ use.patient => Fresh
    <2> SUFFICES ASSUME Init PROVE Fresh
      OBVIOUS
    <2>1. \A i \in Nat : ~Html(i)
      BY DEF Init, Html
    <2> QED BY <2>1 DEF Init, Fresh, First, Pending, OwnText, Blank
  <1>2. [Next]_vars => UNCHANGED use
    BY DEF Next, UiStep, LiteStep, RunPosted, OnLayout, OnLayoutBottom, OnDraw, DrawDone,
           DestoryNative, DestoryDone, TakeHtml, Loaded, TakeLayout, EqualsRight, EqualsBottom,
           CopyRight, CopyBottom, LaidOut, Resize, Pass, LoadHtml, Framework, Destory, vars
  <1>3. Inv /\ (use.patient => Fresh) /\ [Next]_vars => (use.patient => Fresh)'
    BY <1>2, FreshStep DEF Inv
  <1>4. (use.patient => Fresh) => TextIsPages
    BY DEF Fresh, TextIsPages
  <1> QED BY <1>1, <1>3, <1>4, Invariance, PTL DEF Spec
=============================================================================
