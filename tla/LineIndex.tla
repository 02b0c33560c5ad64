----------------------------- MODULE LineIndex ------------------------------
(***************************************************************************)
(* Positions and incremental changes of one open document: the line index  *)
(* (line_index.rs), apply_content_change (document.rs) and the loop of     *)
(* did_change over a batch of changes (text_sync.rs).  The client counts   *)
(* UTF-16 units in a line, the server bytes, and the syntax tree keeps     *)
(* bytes and rows and columns that every change has to shift alike.        *)
(*                                                                         *)
(* A text is a sequence of characters; what matters of a character is how  *)
(* many bytes and UTF-16 units it takes and whether it ends a line.        *)
(***************************************************************************)
EXTENDS Integers, Sequences, FiniteSetsExt

CONSTANTS
  Chars,      \* characters
  Bytes,      \* Bytes[c]: UTF-8 bytes of c
  Units,      \* Units[c]: UTF-16 units of c
  Newline,    \* the character that ends a line
  Inserts,    \* texts an edit types
  MaxLength,  \* bound on the characters of a text
  MaxBatch,   \* bound on the changes of one notification
  MaxSends    \* bound on notifications

ASSUME CharsAssumption ==
  /\ Newline \in Chars
  /\ Bytes \in [Chars -> Nat \ {0}] /\ Units \in [Chars -> Nat \ {0}]
  /\ Inserts \subseteq Seq(Chars)
  /\ MaxLength \in Nat /\ MaxBatch \in Nat /\ MaxSends \in Nat

VARIABLES
  buffer,     \* the editor's text
  batch,      \* the changes not sent yet
  source,     \* the server's text
  lineStarts, \* its LineIndex
  tree,       \* boundaries the tree knows: byte, row and column
  sends       \* notifications so far

textVars == <<buffer, batch, source, lineStarts, tree, sends>>

-----------------------------------------------------------------------------
(* Texts.  A boundary is the number of characters before it.               *)

Ends == [c \in Chars |-> IF c = Newline THEN 1 ELSE 0]

(* Sums(width, text)[i] is the width of the first i characters.            *)
Sums(width, text) ==
  LET sum[i \in 0 .. Len(text)] == IF i = 0 THEN 0 ELSE sum[i - 1] + width[text[i]] IN sum

ByteAt(text, i)  == Sums(Bytes, text)[i]
UnitsAt(text, i) == Sums(Units, text)[i]
LineAt(text, i)  == Sums(Ends, text)[i]
Boundaries(text)   == 0 .. Len(text)
LineStart(text, i) == Max({0} \cup {j \in 1 .. i : text[j] = Newline})

(* Slicing a string at a byte.                                             *)
Boundary(text, byte) == CHOOSE i \in Boundaries(text) : ByteAt(text, i) = byte
Before(text, byte)   == SubSeq(text, 1, Boundary(text, byte))
After(text, byte)    == SubSeq(text, 1 + Boundary(text, byte), Len(text))

(* The editor's position of a boundary: its line, and units before it.     *)
ClientPosition(text, i) ==
  [line |-> LineAt(text, i),
   character |-> UnitsAt(text, i) - UnitsAt(text, LineStart(text, i))]

-----------------------------------------------------------------------------
(* LineIndex.                                                              *)

(* A line starts at the first boundary with that many line ends before it. *)
LineStarts(text) ==
  [n \in 1 .. LineAt(text, Len(text)) + 1 |->
     ByteAt(text, Min({i \in Boundaries(text) : LineAt(text, i) = n - 1}))]

\* Variant: a byte that starts a line belongs to the line before it.
LineOfBefore(starts, byte) == Max({1} \cup {n \in DOMAIN starts : starts[n] < byte})

(* The line of a byte, counted from one.                                   *)
LineOf(starts, byte) == Max({n \in DOMAIN starts : starts[n] <= byte})

ByteToPosition(text, starts, byte) ==
  LET line == LineOf(starts, byte)
      start == Boundary(text, starts[line])
  IN [line |-> line - 1, character |-> UnitsAt(text, Boundary(text, byte)) - UnitsAt(text, start)]

\* Variant: columns count characters.
InLineChars(text, from, i) == i - from

(* The units from one boundary to another.                                 *)
InLine(text, from, i) == UnitsAt(text, i) - UnitsAt(text, from)

(* The bytes a position may mean: none or one.                             *)
PositionToByte(text, starts, position) ==
  IF position.line >= Len(starts) THEN {}
  ELSE LET start == starts[position.line + 1]
           end   == IF position.line + 2 > Len(starts) THEN ByteAt(text, Len(text)) ELSE starts[position.line + 2]
           from  == Boundary(text, start)
       IN {ByteAt(text, i) : i \in {j \in from .. Boundary(text, end) :
                                      InLine(text, from, j) = position.character}}

-----------------------------------------------------------------------------
(* apply_content_change.  A point is a row and a column in bytes.          *)

BytePoint(starts, byte) ==
  LET line == LineOf(starts, byte) IN [row |-> line - 1, column |-> byte - starts[line]]

\* Variant: the line index of the text before the change.
BytePointInOld(text, byte) == BytePoint(lineStarts, byte)

BytePointIn(text, byte) ==
  LET i == Boundary(text, byte)
  IN [row |-> LineAt(text, i), column |-> byte - ByteAt(text, LineStart(text, i))]

(* The text and the InputEdit of a change with a range.                    *)
Change(text, starts, start, end, new) ==
  LET result == Before(text, start) \o new \o After(text, end)
      newEnd == start + ByteAt(new, Len(new))
  IN [text |-> result,
      edit |-> [start |-> start, oldEnd |-> end, newEnd |-> newEnd,
                startPoint |-> BytePoint(starts, start), oldEndPoint |-> BytePoint(starts, end),
                newEndPoint |-> BytePointIn(result, newEnd)]]

(* None when a position is not in the text or the range is backwards.      *)
ApplyContentChange(text, starts, change) ==
  {Change(text, starts, range[1], range[2], change.new) :
     range \in {r \in PositionToByte(text, starts, change.start)
                      \X PositionToByte(text, starts, change.end) : r[1] <= r[2]}}

(* tree.edit: what lies behind the old end moves with it, what lies inside *)
(* the range is dropped.                                                   *)
Shift(mark, edit) ==
  [byte  |-> mark.byte - edit.oldEnd + edit.newEnd,
   point |-> IF mark.point.row = edit.oldEndPoint.row
             THEN [row |-> edit.newEndPoint.row,
                   column |-> mark.point.column - edit.oldEndPoint.column + edit.newEndPoint.column]
             ELSE [row |-> mark.point.row - edit.oldEndPoint.row + edit.newEndPoint.row,
                   column |-> mark.point.column]]

TreeEdit(marks, edit) ==
  {mark \in marks : mark.byte <= edit.start}
    \cup {Shift(mark, edit) : mark \in {k \in marks : k.byte >= edit.oldEnd}}

(* A parse knows every boundary.                                           *)
Parsed(text) ==
  {[byte |-> ByteAt(text, i), point |-> BytePointIn(text, ByteAt(text, i))] : i \in Boundaries(text)}

-----------------------------------------------------------------------------
Full(text) == [full |-> TRUE, new |-> text]

TextInit ==
  /\ buffer \in UNION {[1 .. n -> Chars] : n \in 0 .. MaxLength}
  /\ batch = <<>>
  /\ source = buffer
  /\ lineStarts = LineStarts(source)
  /\ tree = Parsed(source)
  /\ sends = 0

(* The user replaces what lies between two boundaries.  Positions of a     *)
(* later change of a batch count in the text after the earlier ones.       *)
Type(i, j, new) ==
  /\ sends < MaxSends /\ Len(batch) < MaxBatch
  /\ i <= j /\ Len(buffer) - (j - i) + Len(new) <= MaxLength
  /\ i < j \/ new # <<>>
  /\ buffer' = SubSeq(buffer, 1, i) \o new \o SubSeq(buffer, j + 1, Len(buffer))
  /\ batch' = Append(batch, [full |-> FALSE, start |-> ClientPosition(buffer, i),
                             end |-> ClientPosition(buffer, j), new |-> new])
  /\ UNCHANGED <<source, lineStarts, tree, sends>>

(* The client sends the whole text as the last change of a batch.          *)
Replace(new) ==
  /\ sends < MaxSends /\ Len(batch) < MaxBatch
  /\ buffer' = new
  /\ batch' = Append(batch, Full(new))
  /\ UNCHANGED <<source, lineStarts, tree, sends>>

(* One turn of the loop.  A full change makes the tree worthless; it is    *)
(* parsed anew at the end of the batch.                                    *)
Turn(state, change) ==
  IF ~state.ok THEN state
  ELSE IF change.full
  THEN [state EXCEPT !.text = change.new, !.starts = LineStarts(change.new), !.valid = FALSE]
  ELSE LET results == ApplyContentChange(state.text, state.starts, change)
       IN IF results = {} THEN [state EXCEPT !.ok = FALSE]
          ELSE LET r == CHOOSE r \in results : TRUE
               IN [state EXCEPT !.text = r.text, !.starts = LineStarts(r.text),
                                !.tree = IF @ = {} \/ ~state.valid THEN @ ELSE TreeEdit(@, r.edit)]

Unsent == [text |-> source, starts |-> lineStarts, tree |-> tree, valid |-> TRUE, ok |-> TRUE]

Turns(state, changes) ==
  LET after[n \in 0 .. Len(changes)] ==
        IF n = 0 THEN state ELSE Turn(after[n - 1], changes[n])
  IN after[Len(changes)]

(* did_change: all of a batch or nothing of it.                            *)
DidChange ==
  /\ batch # <<>>
  /\ LET s == Turns(Unsent, batch)
     IN IF s.ok
        THEN /\ source' = s.text
             /\ lineStarts' = s.starts
             /\ tree' = IF s.valid THEN s.tree ELSE Parsed(s.text)
        ELSE UNCHANGED <<source, lineStarts, tree>>
  /\ batch' = <<>>
  /\ sends' = sends + 1
  /\ UNCHANGED buffer

(* The edit writer parses the queued text with the edited tree.            *)
Reparse ==
  /\ tree # Parsed(source)
  /\ tree' = Parsed(source)
  /\ UNCHANGED <<buffer, batch, source, lineStarts, sends>>

TextNext ==
  \/ \E i, j \in 0 .. Len(buffer), new \in Inserts : Type(i, j, new)
  \/ \E new \in Inserts : Replace(new)
  \/ DidChange
  \/ Reparse

TextSpec == TextInit /\ [][TextNext]_textVars

-----------------------------------------------------------------------------
\* With every change sent and none in flight, the server's text is the
\* editor's, whatever characters the changes were next to (did_change,
\* apply_content_change, position_to_byte).
BufferMirrored == batch = <<>> => source = buffer

\* Every boundary the tree still knows after any number of changes without
\* a parse has the byte, the row and the column it has in the text: the
\* three points of every InputEdit agree (byte_point, byte_point_in), so
\* that the next parse reuses only what did not change.
TreeFollows ==
  \A mark \in tree :
    \E i \in Boundaries(source) :
      /\ mark.byte = ByteAt(source, i)
      /\ mark.point = [row |-> LineAt(source, i), column |-> mark.byte - ByteAt(source, LineStart(source, i))]

\* A position the server reports for a byte is the editor's own for that
\* place, and comes back to the same byte (byte_to_position,
\* position_to_byte), in the line index kept beside the text.
PositionsRoundTrip ==
  \A i \in Boundaries(source) :
    LET byte == ByteAt(source, i)
        position == ByteToPosition(source, lineStarts, byte)
    IN /\ position = ClientPosition(source, i)
       /\ PositionToByte(source, lineStarts, position) = {byte}
=============================================================================
