--------------------------- MODULE CollectionRoom ---------------------------
(***************************************************************************)
(* The collection room (collection_tui.py): the full-screen choice of the  *)
(* weight variants of a publication, before anything is archived.  One     *)
(* step is one turn of the loop of _room: a key is handled, the window may *)
(* have another height by then, and the page is drawn.                     *)
(***************************************************************************)
EXTENDS WeightVariants

CONSTANTS Group,      \* the groups of the publication, see RoomAssumption
          Height,     \* heights of the window
          Lines,      \* lines of the field guide and of the review
          Opening     \* include lists the room may open with

\* Group is Variants \o Companions: the variants and then the companions, each in
\* the order of their names.
RoomAssumption ==
  /\ Height \subseteq Nat /\ Lines \in Nat
  /\ \A f \in File : f.stem \in Nat /\ f.of \in Nat
  /\ Len(Group) \in Nat \ {0} /\ DOMAIN Group = 1..Len(Group)
  /\ {Group[i] : i \in DOMAIN Group} = {GroupOf(Key(f), f.kind) : f \in Weights}
  /\ \A i \in DOMAIN Group : Group[i].size \in Nat
  /\ \A i, j \in DOMAIN Group : i < j =>
       \/ Group[i].kind = "variant" /\ Group[j].kind = "projector"
       \/ Group[i].kind = Group[j].kind /\ Before(Group[i].name, Group[j].name)

VARIABLES include, cursor, offset, page,
          height,     \* of the window when the page was last drawn
          shown,      \* this include list was drawn for review
          result      \* what the room was left with

vars == <<include, cursor, offset, page, height, shown, result>>

Whole     == {WholeGlob}
MinHeight == 20       \* below it the room only asks for a larger window
ListFrame == 16       \* LIST_TOP + BOTTOM_ROWS
PageFrame == 10
Leap      == 8        \* of the page keys

Undecided == <<"undecided", {}>>
Cancelled == <<"cancel", {}>>

Selected(inc, i) == inc = Whole \/ Group[i].include \subseteq inc
Fits(h) == h >= MinHeight

\* The larger, the smaller of two numbers.
Hi(a, b) == IF a > b THEN a ELSE b
Lo(a, b) == IF a < b THEN a ELSE b

FirstSelected(inc) ==
  LET found == {i \in DOMAIN Group : Selected(inc, i)} IN
  IF found = {} THEN 1 ELSE CHOOSE i \in found : \A j \in found : i <= j

-----------------------------------------------------------------------------
(* Drawing a page moves the window over its list or its lines.  Cursor and   *)
(* groups count from 1 here, offset is the number of rows above.             *)
Rows(h) == Hi(1, h - ListFrame)

Scroll(o, c, h) ==
  LET up == Hi(0, Lo(o, c - 1)) IN IF c - 1 >= up + Rows(h) THEN c - Rows(h) ELSE up

Read(o, h) == Lo(o, Hi(0, Lines - (h - PageFrame)))

Draw(inc, c, o, p, h) ==
  /\ include' = inc /\ cursor' = c /\ page' = p /\ height' = h
  /\ offset' = IF ~Fits(h) THEN o ELSE IF p = "choose" THEN Scroll(o, c, h) ELSE Read(o, h)
  /\ shown' = ((Fits(h) /\ p = "review") \/ (shown /\ inc = include))
  /\ result' = Undecided

-----------------------------------------------------------------------------
Init ==
  /\ include \in Opening /\ cursor = FirstSelected(include)
  /\ page = "choose" /\ height \in Height
  /\ offset = IF Fits(height) THEN Scroll(0, cursor, height) ELSE 0
  /\ shown = FALSE /\ result = Undecided

(* In a window that is too small no key but q and Esc is heeded.             *)
Heeds == result = Undecided /\ Fits(height)

Cancel ==
  /\ result = Undecided /\ result' = Cancelled
  /\ UNCHANGED <<include, cursor, offset, page, height, shown>>

Esc(h) ==
  /\ result = Undecided
  /\ IF ~Fits(height) \/ page = "choose" THEN Cancel
     ELSE Draw(include, cursor, 0, "choose", h)

\* A key that is not heeded, one without a meaning and the key that stands for a
\* resize only have the page drawn again, in the window as it is then.
Redraw(h) == result = Undecided /\ Draw(include, cursor, offset, page, h)

\* Up, down, and the page keys.
Move(step, h) ==
  /\ Heeds
  /\ IF page = "choose"
     THEN Draw(include, Hi(1, Lo(Len(Group), cursor + step)), offset, page, h)
     ELSE Draw(include, cursor, Hi(0, offset + step), page, h)

Guide(h) ==
  /\ Heeds /\ Draw(include, cursor, 0, IF page = "guide" THEN "choose" ELSE "guide", h)

(* starting_selection: the smallest complete variant of known size of each   *)
(* wanted width, or everything.                                              *)
Options(bits) ==
  {i \in DOMAIN Group : Group[i].kind = "variant" /\ Group[i].complete /\ Group[i].size # 0 /\ Group[i].bits = bits}
Smallest(set) == CHOOSE i \in set : \A j \in set \ {i} :
                   \/ Group[i].size < Group[j].size
                   \/ Group[i].size = Group[j].size /\ Before(Group[i].name, Group[j].name)
Start(wanted) ==
  UNION {Group[Smallest(Options(b))].include : b \in {w \in wanted : Options(w) # {}}}

Intent(inc, h) ==
  /\ Heeds /\ page = "choose" /\ Draw(inc, FirstSelected(inc), offset, page, h)

(* Space keeps or drops the group under the cursor, if it is complete; what  *)
(* else is selected stays, as far as it is complete.                         *)
Others(i) == {j \in DOMAIN Group \ {i} : Group[j].complete /\ Selected(include, j)}

Chosen(i) == Others(i) \cup IF Selected(include, i) THEN {} ELSE {i}

Space(h) ==
  /\ Heeds /\ page = "choose"
  /\ IF Group[cursor].complete
     THEN Draw(UNION {Group[j].include : j \in Chosen(cursor)}, cursor, offset, page, h)
     ELSE Draw(include, cursor, offset, page, h)

Enter(h) ==
  /\ Heeds
  /\ CASE page = "review" -> /\ result' = <<"confirm", include>>
                             /\ UNCHANGED <<include, cursor, offset, page, height, shown>>
       [] page = "choose" /\ include # {} -> Draw(include, cursor, 0, "review", h)
       [] OTHER -> Draw(include, cursor, offset, page, h)

Next ==
  \/ Cancel
  \/ \E h \in Height :
       \/ Esc(h) \/ Redraw(h) \/ Guide(h) \/ Space(h) \/ Enter(h)
       \/ \E step \in {-Leap, -1, 1, Leap} : Move(step, h)
       \/ \E inc \in {Start({4}), Start({4, 8}), Whole} : Intent(inc, h)

Spec == Init /\ [][Next]_vars

-----------------------------------------------------------------------------
(* Whatever keys were pressed and however the window was resized, the group  *)
(* under the cursor is one of the rows that are drawn, so Space never acts   *)
(* on a group the user cannot see; and once the user has chosen, the weights *)
(* the selection keeps are those of the groups that are marked, no more and  *)
(* no fewer (collection_tui.py:57-60, 350-353, weight_variants.py:57-63).    *)
CursorShown ==
  page = "choose" /\ Fits(height) => cursor - 1 \in offset .. offset + Rows(height) - 1

Marked == {i \in DOMAIN Group : Selected(include, i)}
MarkedIsKept ==
  include \notin Opening => Kept(include) \cap Weights = UNION {Group[i].files : i \in Marked}

ShownIsChosen == CursorShown /\ MarkedIsKept
=============================================================================
