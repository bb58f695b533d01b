----------------------------- MODULE ScrollPage -----------------------------
(***************************************************************************)
(* A TkScrollablePage of msys_sdk/ui_layout.py with what tk_app.py puts in *)
(* it: a label whose wrap follows the width of the canvas                  *)
(* (bind_tk_text_wrap()), and cards in as many columns as fit.             *)
(*                                                                         *)
(* The page is a loop of events: the width of the canvas decides how the   *)
(* content is wrapped, that decides its height, the height whether there   *)
(* is a scrollbar, and the scrollbar the width of the canvas.  Tk delivers *)
(* the events in order, each with the value of the moment it was made.     *)
(***************************************************************************)
EXTENDS Layout, Sequences

CONSTANTS Width, Height,  \* of the window, as the screen is turned
          BarWidth,      \* of the scrollbar
          Padding, Minimum, \* of the wrap
          MaxColumns,    \* CARD_MAXIMUM_COLUMNS
          Text, Card,    \* how much text the label has, and how many cards there are
          Threshold,     \* drag_threshold
          MaxTurns,      \* bound: how often the screen is turned
          MaxY           \* bound: places of a pointer

ASSUME SizeAssumption ==
    /\ Width \cup Height \cup {BarWidth, Padding, Minimum, MaxColumns, Text, Card, Threshold} \subseteq Nat
    /\ {MaxTurns, MaxY} \subseteq Nat

VARIABLES
    view,     \* width and height of the page's window
    bar,      \* the scrollbar is in the grid
    item,     \* width of the window item, which is that of content
    wrap,     \* wraplength of the label
    columns,  \* columns of the cards
    region,   \* height of the scrollregion
    label,    \* the label exists
    follows,  \* the bindings to <Configure> of the canvas: "page", "label"
    events,   \* events that Tk has to deliver
    turns,    \* turns of the screen
    origin,   \* _drag_origin
    dragging, \* _dragging
    pressed,  \* a pointer is down
    far       \* how far it has been from there, -1 before it moves

viewVars == <<view, turns>>
layoutVars == <<bar, item, wrap, columns, region, label, follows>>
gestureVars == <<origin, dragging, pressed, far>>
pageVars == <<viewVars, layoutVars, events, gestureVars>>

-----------------------------------------------------------------------------
(* What Tk does: the canvas has what the scrollbar leaves, and the content is  *)
(* as high as its lines of text and rows of cards.                             *)

CeilDiv(a, b) == (a + b - 1) \div b

CanvasWidth(v, b) == Larger(1, v.w - (IF b THEN BarWidth ELSE 0))

ContentHeight(l, wr, n) == (IF l THEN CeilDiv(Text, wr) ELSE 0) + CeilDiv(Card, n)

Event(kind, n) == [kind |-> kind, n |-> n]
Changed(kind, old, new) == IF old = new THEN <<>> ELSE <<Event(kind, new)>>

WrapWidth(n) == ContentWidth(n, Padding, Minimum, NoMaximum)
CardColumns(n) == Columns(n, 1, 1, MaxColumns)

\* A window that was just mapped.
PageInit(v) ==
    /\ view = v /\ turns = 0
    /\ bar = TRUE /\ item = 1 /\ region = 0
    /\ label = TRUE /\ wrap = WrapWidth(1) /\ columns = CardColumns(1)
    /\ follows = {"page", "label"}
    /\ events = <<Event("canvas", CanvasWidth(view, bar)),
                  Event("content", ContentHeight(label, wrap, columns))>>
    /\ origin = 0 /\ dragging = FALSE /\ pressed = FALSE /\ far = -1

-----------------------------------------------------------------------------
(* Mistakes the properties must tell from the code. *)

WhenItFits(fits) == fits = 1
StaysMarked(distance) == distance >= Threshold

-----------------------------------------------------------------------------
(* The handlers.  e is the event that is delivered. *)

Deliver(kind) == events # <<>> /\ Head(events).kind = kind

Fits(r, v) == IF r <= v.h THEN 1 ELSE 0

\* _canvas_resized(), then resize() of the label's wrap.
CanvasResized ==
    /\ Deliver("canvas")
    /\ LET n == Head(events).n
       IN  /\ item' = IF "page" \in follows THEN Larger(1, n) ELSE item
           /\ wrap' = IF "label" \in follows THEN WrapWidth(n) ELSE wrap
           /\ events' = Tail(events)
                        \o Changed("cards", item, item')
                        \o Changed("content", ContentHeight(label, wrap, columns),
                                              ContentHeight(label, wrap', columns))
                        \o <<Event("scroll", Fits(region, view))>>
    /\ UNCHANGED <<viewVars, bar, columns, region, label, follows, gestureVars>>

\* _layout() of the cards
CardsResized ==
    /\ Deliver("cards")
    /\ columns' = CardColumns(Head(events).n)
    /\ events' = Tail(events) \o Changed("content", ContentHeight(label, wrap, columns),
                                                    ContentHeight(label, wrap, columns'))
    /\ UNCHANGED <<viewVars, bar, item, wrap, region, label, follows, gestureVars>>

\* _content_resized(): the bounding box of this moment; the canvas then tells the
\* scrollbar what it shows.
ContentResized ==
    /\ Deliver("content")
    /\ region' = ContentHeight(label, wrap, columns)
    /\ events' = Append(Tail(events), Event("scroll", Fits(region', view)))
    /\ UNCHANGED <<viewVars, bar, item, wrap, columns, label, follows, gestureVars>>

ShowsBar(fits) == fits = 0

\* _scrollbar_set()
ScrollbarSet ==
    /\ Deliver("scroll")
    /\ bar' = ShowsBar(Head(events).n)
    /\ events' = Tail(events) \o Changed("canvas", CanvasWidth(view, bar), CanvasWidth(view, bar'))
    /\ UNCHANGED <<viewVars, item, wrap, columns, region, label, follows, gestureVars>>

Handle == CanvasResized \/ CardsResized \/ ContentResized \/ ScrollbarSet

\* The screen is turned.
Turn(v) ==
    /\ turns < MaxTurns /\ v # view /\ ~pressed
    /\ turns' = turns + 1 /\ view' = v
    /\ events' = Append(events, Event("canvas", CanvasWidth(v, bar)))
    /\ UNCHANGED <<layoutVars, gestureVars>>

\* The label is destroyed, and release() of bind_wrap() unbinds it: as the version of tkinter
\* is, that one binding, or with it every other of the event.
DestroyLabel ==
    /\ label /\ label' = FALSE
    /\ follows' \in {follows \ {"label"}, {}}
    /\ events' = events \o Changed("content", ContentHeight(TRUE, wrap, columns),
                                              ContentHeight(FALSE, wrap, columns))
    /\ UNCHANGED <<viewVars, bar, item, wrap, columns, region, gestureVars>>

-----------------------------------------------------------------------------
(* Gestures, of a pointer that goes down when the page has settled. *)

Distance(a, b) == IF a >= b THEN a - b ELSE b - a

Press(y) ==
    /\ ~pressed /\ events = <<>> /\ pressed' = TRUE
    /\ origin' = y /\ dragging' = FALSE /\ far' = -1
    /\ UNCHANGED <<viewVars, layoutVars, events>>

IsDrag(distance) == dragging \/ distance >= Threshold

Motion(y) ==
    /\ pressed
    /\ dragging' = IsDrag(Distance(y, origin))
    /\ far' = Larger(far, Distance(y, origin))
    /\ UNCHANGED <<viewVars, layoutVars, events, origin, pressed>>

\* The widget below does not get the release of a drag.
Release ==
    /\ pressed /\ pressed' = FALSE
    /\ dragging' = FALSE /\ far' = -1
    /\ UNCHANGED <<viewVars, layoutVars, events, origin>>

PageNext ==
    \/ Handle \/ DestroyLabel \/ Release
    \/ \E w \in Width, h \in Height : Turn([w |-> w, h |-> h])
    \/ \E y \in 0..MaxY : Press(y) \/ Motion(y)

-----------------------------------------------------------------------------
(* Properties *)

\* The type invariant of the page.
PageTypeOK ==
    /\ view \in [w : Width, h : Height] /\ turns \in 0..MaxTurns
    /\ {bar, label, dragging, pressed} \subseteq BOOLEAN
    /\ item \in Nat \ {0} /\ wrap \in Nat \ {0} /\ columns \in Nat \ {0} /\ region \in Nat
    /\ follows \subseteq {"page", "label"}
    /\ events \in Seq([kind : {"canvas", "cards", "content", "scroll"}, n : Nat])
    /\ origin \in 0..MaxY /\ far \in (-1)..MaxY

\* When all events are delivered the columns and the wrap are those of the content's width,
\* all of it can be scrolled to, and there is a scrollbar exactly if it is higher than the
\* window.  As long as the page has its binding, that is the width of the canvas.
InReach ==
    events = <<>> =>
        /\ "page" \in follows => item = CanvasWidth(view, bar)
        /\ columns = CardColumns(item) /\ (label => wrap = WrapWidth(item))
        /\ region = ContentHeight(label, wrap, columns)
        /\ bar <=> region > view.h

\* What InReach rests on: until then what is out of date is told by an event that waits, of
\* which the last has the value of now.
Waits(s, kind) == \E i \in DOMAIN s : s[i].kind = kind
LastTells(s, kind, n) == \A i \in DOMAIN s :
    s[i].kind = kind /\ (\A j \in DOMAIN s : j > i => s[j].kind # kind) => s[i].n = n
EventsTell ==
    /\ "label" \in follows <=> label
    /\ label => "page" \in follows
    /\ label => wrap = WrapWidth(item)
    /\ LastTells(events, "canvas", CanvasWidth(view, bar))
    /\ LastTells(events, "cards", item)
    /\ ~Waits(events, "canvas") =>
           /\ "page" \in follows => item = CanvasWidth(view, bar)
           /\ LastTells(events, "scroll", Fits(region, view))
           /\ ~Waits(events, "scroll") => bar = ShowsBar(Fits(region, view))
    /\ ~Waits(events, "cards") => columns = CardColumns(item)
    /\ ~Waits(events, "content") => region = ContentHeight(label, wrap, columns)

\* unbind() "removes only this binding": the content has the width of the canvas also when
\* its label is gone.
FillsCanvas == events = <<>> => item = CanvasWidth(view, bar)

\* A gesture that was a drag once stays one, also back where it began; one that never
\* was as far as the threshold is a tap.
DragTrue == pressed => (dragging <=> far >= Threshold)

\* The columns are the most that fit, and at least one.
ColumnsFit ==
    \A width \in Width \cup {item}, size \in 1..3, gap \in 0..2 :
        LET n == Columns(width, size, gap, NoMaximum)
        IN  /\ n = 1 \/ n * size + (n - 1) * gap <= width
            /\ (n + 1) * size + n * gap > width
=============================================================================
