----------------------------- MODULE LineEditor -----------------------------
(***************************************************************************)
(* The line editor of the prompt (run_prompt in kernel/src/common/main.c). *)
(* A step is one key that kbd_poll_key returned, with all that follows:    *)
(* the edit of the buffer, and the redraw.                                 *)
(*                                                                         *)
(* The terminal is flanterm, known from how run_prompt uses it: its cursor *)
(* can be set and asked for, a write goes on in the next row at the end of *)
(* one, and at the bottom everything moves up. It wraps when the next      *)
(* character comes, not before (the blank that redraw appends is there "to *)
(* push us to the next line"). What matters of its contents is where the   *)
(* line begins: anchor.                                                    *)
(***************************************************************************)
EXTENDS Integers, Sequences

CONSTANTS
  Chars,         \* the characters that keys stand for
  CAPACITY,      \* the capacity run_prompt starts with, 32
  Cols, Rows,    \* of the terminal
  PromptLen,     \* of "prompt> "
  MaxLen,        \* bound on the length of a line
  NUL,
  Garbage        \* what fresh memory from malloc holds

ASSUME EditorAssumption ==
  /\ CAPACITY \in Nat \ {0}
  /\ Cols \in Nat \ {0}
  /\ Rows \in Nat \ {0}
  /\ PromptLen \in 0..(Cols - 1)
  /\ MaxLen \in Nat
  /\ NUL \notin Chars
  /\ Garbage \notin Chars \union {NUL}

VARIABLES
  line, line_capacity, pos, line_len,
  cursor_start,      \* [x, y], where run_prompt thinks the line begins
  cursor,            \* [x, y], the terminal's cursor
  anchor,            \* the cell, counted from the top, where it does begin
  evaluated,         \* the line eval was given last
  halted             \* hcf was called

vars == <<line, line_capacity, pos, line_len, cursor_start, cursor, anchor,
          evaluated, halted>>

screen == <<cursor_start, cursor, anchor>>
Text == <<line, line_capacity, pos, line_len>>

Cell(at) == at.y * Cols + at.x
Fresh(capacity) == [i \in 0..(capacity - 1) |-> Garbage]

Init ==
  /\ line = Fresh(CAPACITY)
  /\ line_capacity = CAPACITY
  /\ pos = 0
  /\ line_len = 0
  /\ \E y \in 0..(Rows - 1) : cursor_start = [x |-> PromptLen, y |-> y]
  /\ cursor = cursor_start
  /\ anchor = Cell(cursor_start)
  /\ evaluated = <<>>
  /\ halted = FALSE

-----------------------------------------------------------------------------
(* memmove of n bytes inside a buffer. *)
Memmove(buf, dest, src, n) ==
  [i \in DOMAIN buf |-> IF i \in dest..(dest + n - 1) THEN buf[i - dest + src] ELSE buf[i]]

(* Faulty variant: the rows the screen moved up are not counted.           *)
RedrawUnscrolled ==
  LET blank == Cell(cursor_start) + line_len'
      scrolled == IF blank < Rows * Cols THEN 0
                  ELSE (blank - Rows * Cols) \div Cols + 1
  IN  /\ anchor' = anchor - scrolled * Cols
      /\ cursor' = [x |-> (cursor_start.x + pos') % Cols,
                    y |-> cursor_start.y + (cursor_start.x + pos') \div Cols]
      /\ UNCHANGED cursor_start

(* The line and a blank after it are written from cursor_start on. When    *)
(* the blank is in a higher row than it would be without scrolling, the    *)
(* screen has moved up by as many rows. Then the cursor is put on pos.     *)
Redraw ==
  LET blank == Cell(cursor_start) + line_len'
      scrolled == IF blank < Rows * Cols THEN 0
                  ELSE (blank - Rows * Cols) \div Cols + 1
      line_end_y == blank \div Cols - scrolled
      expected_line_end_y == cursor_start.y + (cursor_start.x + line_len') \div Cols
      moved == IF line_end_y < expected_line_end_y
               THEN expected_line_end_y - line_end_y ELSE 0
  IN  /\ anchor' = anchor - scrolled * Cols
      /\ cursor_start' = [cursor_start EXCEPT !.y = @ - moved]
      /\ cursor' = [x |-> (cursor_start.x + pos') % Cols,
                    y |-> cursor_start'.y + (cursor_start.x + pos') \div Cols]

Backspace ==
  /\ IF pos # 0
     THEN /\ line' = Memmove(line, pos - 1, pos, line_len - pos)
          /\ pos' = pos - 1
          /\ line_len' = line_len - 1
     ELSE UNCHANGED <<line, pos, line_len>>
  /\ Redraw
  /\ UNCHANGED <<line_capacity, evaluated, halted>>

ArrowLeft ==
  /\ pos' = IF pos # 0 THEN pos - 1 ELSE pos
  /\ UNCHANGED <<line, line_capacity, line_len, evaluated, halted>>
  /\ Redraw

ArrowRight ==
  /\ pos' = IF pos < line_len THEN pos + 1 ELSE pos
  /\ UNCHANGED <<line, line_capacity, line_len, evaluated, halted>>
  /\ Redraw

(* A key that stands for no character, tab among them. *)
OtherKey ==
  /\ UNCHANGED <<line, line_capacity, pos, line_len, evaluated, halted>>
  /\ Redraw

(* Faulty variant: no byte is left for the terminator. *)
BufferFullLate == line_len = line_capacity

BufferFull == line_len + 1 = line_capacity

(* Faulty variant: only the text before the cursor is taken along. *)
GrownToCursor ==
  [i \in 0..(2 * line_capacity - 1) |-> IF i < pos THEN line[i] ELSE Garbage]

(* The buffer after malloc of twice the size and memcpy. *)
Grown ==
  [i \in 0..(2 * line_capacity - 1) |-> IF i < line_capacity THEN line[i] ELSE Garbage]

CharKey(ch) ==
  /\ line_len < MaxLen
  /\ LET buf == IF BufferFull THEN Grown ELSE line
     IN  line' = [Memmove(buf, pos + 1, pos, line_len - pos) EXCEPT ![pos] = ch]
  /\ line_capacity' = IF BufferFull THEN 2 * line_capacity ELSE line_capacity
  /\ pos' = pos + 1
  /\ line_len' = line_len + 1
  /\ Redraw
  /\ UNCHANGED <<evaluated, halted>>

(* malloc has no memory for a larger buffer: hcf.                          *)
CharKeyHalts ==
  /\ BufferFull
  /\ halted' = TRUE
  /\ UNCHANGED <<line, line_capacity, pos, line_len, screen, evaluated>>

(* Enter: the terminator, eval, which reads the line up to it and prints   *)
(* some rows, and a new prompt below.                                      *)
Enter ==
  /\ line' = [line EXCEPT ![line_len] = NUL]
  /\ LET strlen == CHOOSE n \in DOMAIN line :
                     line'[n] = NUL /\ \A i \in 0..(n - 1) : line'[i] # NUL
     IN  evaluated' = [i \in 1..strlen |-> line'[i - 1]]
  /\ pos' = 0
  /\ line_len' = 0
  /\ \E y \in (cursor.y + 1)..(Rows - 1) \union {Rows - 1} :
       cursor_start' = [x |-> PromptLen, y |-> y]
  /\ cursor' = cursor_start'
  /\ anchor' = Cell(cursor_start')
  /\ UNCHANGED <<line_capacity, halted>>

Next ==
  /\ ~halted
  /\ \/ Backspace
     \/ ArrowLeft
     \/ ArrowRight
     \/ OtherKey
     \/ \E ch \in Chars : CharKey(ch)
     \/ CharKeyHalts
     \/ Enter

Spec == Init /\ [][Next]_vars

-----------------------------------------------------------------------------
(* No sequence of keys takes the cursor out of the line, or the line, with *)
(* the terminator that enter will append, out of its buffer.               *)
EditsInBounds == 0 <= pos /\ pos <= line_len /\ line_len < line_capacity

(* Whatever the keys, and whenever the buffer grew, the line holds what    *)
(* was typed, and eval is given exactly that: the bytes it reads, up to    *)
(* the first terminator, are the text.                                     *)
before == [i \in 1..pos |-> line[i - 1]]
after == [i \in 1..(line_len - pos) |-> line[pos + i - 1]]

TL == INSTANCE TextLine

ImplementsTextLine == TL!Spec

(* A line, with the prompt before it and the blank after it, fits on the   *)
(* screen.                                                                 *)
LineFits == PromptLen + MaxLen < Rows * Cols

OnScreen(at) == at.y \in 0..(Rows - 1)

(* However the line wraps and the screen scrolls, run_prompt knows where   *)
(* the line begins, and the cursor is on the character at pos; neither     *)
(* leaves the screen. (Of lines that fit on it.)                           *)
CursorOnPos ==
  /\ Cell(cursor_start) = anchor
  /\ Cell(cursor) = anchor + pos
  /\ OnScreen(cursor_start) /\ OnScreen(cursor)
=============================================================================
