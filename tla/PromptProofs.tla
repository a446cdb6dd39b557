---------------------------- MODULE PromptProofs ----------------------------
(***************************************************************************)
(* The prompt and the keys it polls. The line editor of run_prompt, for    *)
(* every set of characters, every first capacity of the buffer, every      *)
(* length of a line and every size of the screen: the buffer is never      *)
(* overrun, the cursor is where run_prompt believes it to be, and the      *)
(* editor implements TextLine. The keyboard, for a queue of any length:    *)
(* it implements KeyQueue.                                                 *)
(***************************************************************************)
EXTENDS LineEditor, Keyboard, TLAPS

Bytes == Chars \union {NUL, Garbage}

(* The buffer and the indices in it; what lies below line_len was typed.   *)
BufferInv ==
  /\ line_capacity \in Nat \ {0}
  /\ line \in [0..(line_capacity - 1) -> Bytes]
  /\ pos \in Nat /\ line_len \in Nat
  /\ EditsInBounds
  /\ line_len <= MaxLen
  /\ \A i \in 0..(line_len - 1) : line[i] \in Chars

(* The screen, as long as lines fit on it.                                 *)
ScreenInv ==
  /\ cursor_start \in [x : {PromptLen}, y : Int]
  /\ cursor \in [x : Int, y : Int]
  /\ anchor \in Int
  /\ CursorOnPos

IInv == BufferInv /\ (LineFits => ScreenInv)

-----------------------------------------------------------------------------
(* Cells and rows: a cell is its row's first one and its column.           *)
LEMMA DivMod ==
  ASSUME NEW a \in Int, NEW n \in Nat \ {0}
  PROVE  /\ a \div n \in Int
         /\ a % n \in 0..(n - 1)
         /\ a = (a \div n) * n + (a % n)
<1> DEFINE m == (a \div n) * n
<1>1. a \div n \in Int /\ a % n \in 0..(n - 1)
  OBVIOUS
<1>2. a - m = a % n /\ m \in Int
  OBVIOUS
<1> HIDE DEF m
<1>3. a = m + (a % n)
  BY <1>1, <1>2
<1> QED
  BY <1>1, <1>3, Zenon DEF m

(* A multiple of n between -n and n is 0.                                  *)
LEMMA SmallMultiple ==
  ASSUME NEW d \in Int, NEW n \in Nat \ {0}, d * n < n, d * n > -n
  PROVE  d = 0
<1>1. ~(d >= 1)
  <2> SUFFICES ASSUME d >= 1 PROVE FALSE
    OBVIOUS
  <2>1. d * n >= 1 * n
    OBVIOUS
  <2> QED
    BY <2>1
<1>2. ~(d <= -1)
  <2> SUFFICES ASSUME d <= -1 PROVE FALSE
    OBVIOUS
  <2>1. d * n <= (-1) * n
    OBVIOUS
  <2> QED
    BY <2>1
<1> QED
  BY <1>1, <1>2

(* The row of a cell that is given by its row and a column that may lie    *)
(* beyond the end of the row.                                              *)
LEMMA RowOfCell ==
  ASSUME NEW y \in Int, NEW x \in Int, NEW n \in Nat \ {0}
  PROVE  (y * n + x) \div n = y + x \div n
<1> DEFINE c == y * n + x
           q == c \div n
           s == c % n
           k == x \div n
           r == x % n
           yn == y * n
           qn == q * n
           kn == k * n
<1>1. c \in Int /\ yn \in Int
  OBVIOUS
<1>2. /\ q \in Int /\ s \in 0..(n - 1) /\ c = qn + s
      /\ k \in Int /\ r \in 0..(n - 1) /\ x = kn + r
  BY <1>1, DivMod
<1>3. qn \in Int /\ kn \in Int
  BY <1>2
<1>4. (q - (y + k)) * n = qn - (yn + kn)
  <2> HIDE DEF q, k
  <2> QED
    BY <1>2
<1>5. c = yn + x
  OBVIOUS
<1> HIDE DEF c, q, s, k, r, yn, qn, kn
<1>6. qn - (yn + kn) = r - s
  BY <1>1, <1>2, <1>3, <1>5
<1>7. q - (y + k) = 0
  <2> DEFINE d == q - (y + k)
  <2>1. d \in Int /\ d * n = r - s
    BY <1>2, <1>4, <1>6
  <2> HIDE DEF d
  <2>2. d * n < n /\ d * n > -n
    BY <1>2, <2>1
  <2> QED
    BY <2>1, <2>2, SmallMultiple DEF d
<1> QED
  BY <1>2, <1>7 DEF c, q, k, yn

(* A quotient is below b just when the number is below b times n.          *)
LEMMA DivBounds ==
  ASSUME NEW a \in Int, NEW b \in Int, NEW n \in Nat \ {0}
  PROVE  /\ a < b * n => a \div n < b
         /\ a >= b * n => a \div n >= b
<1> DEFINE q == a \div n
           r == a % n
           qn == q * n
           bn == b * n
<1>1. /\ q \in Int /\ r \in 0..(n - 1) /\ a = qn + r
      /\ qn \in Int /\ bn \in Int
  BY DivMod
<1>2. q >= b => qn >= bn
  <2> HIDE DEF q
  <2> QED
    BY <1>1
<1>3. q < b => qn + n <= bn
  <2> HIDE DEF q
  <2>1. q < b => (q + 1) * n <= b * n
    BY <1>1
  <2>2. (q + 1) * n = q * n + n
    BY <1>1
  <2> QED
    BY <2>1, <2>2
<1> HIDE DEF q, r, qn, bn
<1>4. (a < bn => q < b) /\ (a >= bn => q >= b)
  BY <1>1, <1>2, <1>3
<1> QED
  BY <1>4 DEF q, bn

(* Division keeps the order.                                               *)
LEMMA DivMonotonic ==
  ASSUME NEW a \in Int, NEW b \in Int, NEW n \in Nat \ {0}, a <= b
  PROVE  a \div n <= b \div n
<1> DEFINE k == a \div n
           kn == k * n
           r == a % n
<1>1. k \in Int /\ kn \in Int /\ a = kn + r /\ r \in 0..(n - 1)
  BY DivMod
<1> HIDE DEF k, r
<1>2. b >= k * n
  <2> HIDE DEF kn
  <2>1. b >= kn
    BY <1>1
  <2> QED
    BY <2>1 DEF kn
<1>3. b \div n >= k
  BY <1>1, <1>2, DivBounds
<1> QED
  BY <1>1, <1>3, DivMod DEF k

(* The rows that a line scrolls away leave its first row, and all of its   *)
(* rows, on the screen.                                                    *)
LEMMA ScrollsOnScreen ==
  ASSUME LineFits, NEW y \in 0..(Rows - 1), NEW l \in 0..MaxLen, NEW p \in 0..l
  PROVE  LET blank == (y * Cols + PromptLen) + l
             scrolled == IF blank < Rows * Cols THEN 0
                         ELSE (blank - Rows * Cols) \div Cols + 1
         IN  /\ y - scrolled \in 0..(Rows - 1)
             /\ (y - scrolled) + (PromptLen + p) \div Cols \in 0..(Rows - 1)
<1> DEFINE x == PromptLen
           blank == (y * Cols + x) + l
           scrolled == IF blank < Rows * Cols THEN 0
                       ELSE (blank - Rows * Cols) \div Cols + 1
           k == (x + l) \div Cols
           j == (x + p) \div Cols
           rest == (y - Rows) * Cols
<1>1. /\ Cols \in Nat \ {0} /\ Rows \in Nat \ {0} /\ Rows * Cols \in Int
      /\ x \in Nat /\ y \in Nat /\ y < Rows /\ l \in Nat /\ p \in Nat /\ p <= l
      /\ y * Cols \in Int /\ rest \in Int /\ rest = y * Cols - Rows * Cols
  BY EditorAssumption
<1>2. x + l < Rows * Cols
  BY <1>1, EditorAssumption DEF LineFits
<1>3. k \in Int /\ j \in Int /\ 0 <= j /\ j <= k /\ k < Rows
  <2>1. k \in Int /\ j \in Int
    BY <1>1
  <2>2. j <= k
    BY <1>1, DivMonotonic
  <2>3. k < Rows
    BY <1>1, <1>2, DivBounds
  <2>4. x + p >= 0 * Cols
    BY <1>1
  <2>5. 0 <= j
    BY <1>1, <2>4, DivBounds
  <2> QED
    BY <2>1, <2>2, <2>3, <2>5
<1>4. CASE blank < Rows * Cols
  <2>1. blank \div Cols = y + k
    <3>1. blank = y * Cols + (x + l) /\ x + l \in Int /\ y \in Int
      BY <1>1
    <3> HIDE DEF blank
    <3>2. (y * Cols + (x + l)) \div Cols = y + (x + l) \div Cols
      BY <1>1, <3>1, RowOfCell
    <3> QED
      BY <3>1, <3>2
  <2>2. blank \div Cols < Rows
    BY <1>1, <1>4, DivBounds
  <2>3. scrolled = 0
    BY <1>4
  <2> HIDE DEF k, j, blank, scrolled
  <2>4. /\ y - scrolled \in 0..(Rows - 1)
        /\ (y - scrolled) + j \in 0..(Rows - 1)
    BY <1>1, <1>3, <2>1, <2>2, <2>3
  <2> QED
    BY <2>4 DEF scrolled, blank, j
<1>5. CASE ~(blank < Rows * Cols)
  <2> DEFINE over == blank - Rows * Cols
  <2>1. over \div Cols = (y - Rows) + k
    <3>1. over = (y - Rows) * Cols + (x + l) /\ x + l \in Int /\ y - Rows \in Int
      BY <1>1
    <3> HIDE DEF over
    <3> QED
      BY <1>1, <3>1, RowOfCell
  <2>2. over \div Cols >= 0
    <3>1. over >= 0 * Cols /\ over \in Int
      BY <1>1, <1>5
    <3> QED
      BY <1>1, <3>1, DivBounds
  <2>3. scrolled = over \div Cols + 1
    BY <1>5
  <2> HIDE DEF k, j, blank, over, scrolled
  <2>4. /\ y - scrolled \in 0..(Rows - 1)
        /\ (y - scrolled) + j \in 0..(Rows - 1)
    BY <1>1, <1>3, <2>1, <2>2, <2>3
  <2> QED
    BY <2>4 DEF scrolled, blank, j
<1> QED
  BY <1>4, <1>5

(* The redraw counts as many rows as the screen has scrolled, and puts the *)
(* cursor on the character at pos.                                         *)
LEMMA RedrawScreenInv ==
  ASSUME LineFits, ScreenInv, Redraw, BufferInv', pos' \in Nat, line_len' \in Nat
  PROVE  ScreenInv'
<1> DEFINE p == pos'
           x == cursor_start.x
           y == cursor_start.y
           blank == Cell(cursor_start) + line_len'
           scrolled == IF blank < Rows * Cols THEN 0
                       ELSE (blank - Rows * Cols) \div Cols + 1
           moved == IF blank \div Cols - scrolled < y + (x + line_len') \div Cols
                    THEN y + (x + line_len') \div Cols - (blank \div Cols - scrolled) ELSE 0
<1>1. /\ x \in Nat /\ y \in Int /\ x = PromptLen
      /\ cursor_start = [x |-> x, y |-> y]
      /\ Cols \in Nat \ {0} /\ Rows \in Nat \ {0} /\ Rows * Cols \in Int
      /\ Cell(cursor_start) = y * Cols + x /\ y * Cols \in Int
      /\ anchor = Cell(cursor_start)
  BY EditorAssumption DEF ScreenInv, CursorOnPos, Cell
<1>2. scrolled \in Nat
  <2>1. ASSUME NEW a \in Nat PROVE a \div Cols \in Nat
    BY <1>1
  <2>2. blank \in Int
    BY <1>1
  <2>3. CASE blank < Rows * Cols
    BY <2>3
  <2>4. CASE ~(blank < Rows * Cols)
    <3>1. blank - Rows * Cols \in Nat
      BY <1>1, <2>2, <2>4
    <3> QED
      BY <2>1, <2>4, <3>1
  <2> QED
    BY <2>3, <2>4
<1>3. blank \div Cols = y + (x + line_len') \div Cols
  <2>1. blank = y * Cols + (x + line_len')
    BY <1>1
  <2>2. x + line_len' \in Int
    BY <1>1
  <2> QED
    BY <1>1, <2>1, <2>2, RowOfCell
<1>4. moved = scrolled
  <2>1. (x + line_len') \div Cols \in Int
    BY <1>1
  <2> HIDE DEF scrolled, blank
  <2> QED
    BY <1>1, <1>2, <1>3, <2>1
<1>5. /\ anchor' = anchor - scrolled * Cols
      /\ cursor_start' = [x |-> x, y |-> y - moved]
      /\ cursor' = [x |-> (x + p) % Cols, y |-> (y - moved) + (x + p) \div Cols]
  BY <1>1 DEF Redraw
<1>6. p \in Nat
  OBVIOUS
<1> HIDE DEF p, x, y, blank, scrolled, moved
<1>7. scrolled * Cols \in Int /\ (y - scrolled) * Cols = y * Cols - scrolled * Cols
  BY <1>1, <1>2
<1>8. Cell(cursor_start') = anchor'
  <2>1. Cell(cursor_start') = (y * Cols - scrolled * Cols) + x
    BY <1>4, <1>5, <1>7 DEF Cell
  <2>2. anchor' = (y * Cols + x) - scrolled * Cols
    BY <1>1, <1>5, Zenon
  <2> DEFINE yc == y * Cols
             sc == scrolled * Cols
  <2>3. yc \in Int /\ sc \in Int /\ x \in Int
    BY <1>1, <1>7
  <2> HIDE DEF yc, sc
  <2>4. (yc - sc) + x = (yc + x) - sc
    BY <2>3
  <2> QED
    BY <2>1, <2>2, <2>4, Zenon DEF yc, sc
<1>9. Cell(cursor') = anchor' + p
  <2> DEFINE q == (x + p) \div Cols
             r == (x + p) % Cols
  <2>1. q \in Int /\ r \in Int /\ x + p = q * Cols + r
    <3>1. x + p \in Int /\ Cols \in Nat \ {0}
      BY <1>1, <1>6
    <3>2. r \in 0..(Cols - 1) => r \in Int
      BY <3>1
    <3> QED
      BY <3>1, <3>2, DivMod, Zenon
  <2> HIDE DEF q, r
  <2>2. cursor'.x = r /\ cursor'.y = (y - scrolled) + q
    BY <1>4, <1>5 DEF q, r
  <2>3. ((y - scrolled) + q) * Cols = (y - scrolled) * Cols + q * Cols
    BY <1>1, <1>2, <2>1
  <2>4. q * Cols \in Int
    BY <1>1, <2>1
  <2>5. Cell(cursor') = ((y - scrolled) * Cols + q * Cols) + r
    BY <2>2, <2>3, Zenon DEF Cell
  <2>6. anchor' = (y * Cols + x) - scrolled * Cols
    BY <1>1, <1>5
  <2> DEFINE yc == y * Cols
             sc == scrolled * Cols
             qc == q * Cols
  <2>7. yc \in Int /\ sc \in Int /\ qc \in Int
    BY <1>1, <1>7, <2>4
  <2>8. Cell(cursor') = ((yc - sc) + qc) + r /\ anchor' = (yc + x) - sc
    BY <1>7, <2>5, <2>6, Zenon
  <2>9. x \in Int
    BY <1>1
  <2>10. x \in Int /\ r \in Int /\ x + p = qc + r
    BY <2>1, <2>9, Zenon
  <2> HIDE DEF yc, sc, qc
  <2>11. ((yc - sc) + qc) + r = ((yc + x) - sc) + p
    BY <1>6, <2>7, <2>10
  <2> QED
    BY <2>8, <2>11, Zenon
<1>10. (x + p) % Cols \in Int /\ (x + p) \div Cols \in Int
  <2>1. x + p \in Int
    BY <1>1, <1>6
  <2> QED
    BY <1>1, <2>1, DivMod
<1>11. /\ cursor_start' \in [x : {PromptLen}, y : Int]
       /\ cursor' \in [x : Int, y : Int]
  <2>1. y - moved \in Int
    BY <1>1, <1>2, <1>4
  <2> QED
    BY <1>1, <1>5, <1>10, <2>1
<1>12. anchor' \in Int
  BY <1>1, <1>2, <1>5, <1>7
<1>13. OnScreen(cursor_start') /\ OnScreen(cursor')
  <2>1. /\ y - scrolled \in 0..(Rows - 1)
        /\ (y - scrolled) + (x + p) \div Cols \in 0..(Rows - 1)
    <3>1. y \in 0..(Rows - 1)
      BY <1>1 DEF ScreenInv, CursorOnPos, OnScreen
    <3>2. line_len' \in 0..MaxLen /\ p \in 0..line_len'
      BY <1>6, EditorAssumption DEF p, BufferInv, EditsInBounds
    <3> QED
      BY <1>1, <3>1, <3>2, ScrollsOnScreen DEF scrolled, blank
  <2> QED
    BY <1>4, <1>5, <2>1 DEF OnScreen
<1> QED
  BY <1>8, <1>9, <1>11, <1>12, <1>13 DEF ScreenInv, CursorOnPos, OnScreen, p

-----------------------------------------------------------------------------
(* A larger buffer begins with what was in the smaller.                    *)
LEMMA GrownType ==
  ASSUME BufferInv
  PROVE  /\ Grown \in [0..(2 * line_capacity - 1) -> Bytes]
         /\ \A i \in 0..(line_capacity - 1) : Grown[i] = line[i]
BY DEF Grown, BufferInv, Bytes

-----------------------------------------------------------------------------
LEMMA InitIInv == Init => IInv
<1> SUFFICES ASSUME Init PROVE IInv
  OBVIOUS
<1>1. BufferInv
  BY EditorAssumption DEF Init, Fresh, BufferInv, Bytes, EditsInBounds
<1>2. ScreenInv
  <2>1. PICK y \in 0..(Rows - 1) : cursor_start = [x |-> PromptLen, y |-> y]
    BY DEF Init
  <2>2. /\ cursor = cursor_start /\ anchor = Cell(cursor_start) /\ pos = 0
        /\ y \in Int /\ PromptLen \in Int /\ Cols \in Int /\ Rows \in Int
    BY EditorAssumption DEF Init
  <2>3. Cell(cursor_start) \in Int
    BY <2>1, <2>2 DEF Cell
  <2> QED
    BY <2>1, <2>2, <2>3 DEF ScreenInv, CursorOnPos, OnScreen
<1> QED
  BY <1>1, <1>2 DEF IInv

(* A character goes into the buffer, which is twice as large then if it    *)
(* was full but for the terminator.                                        *)
LEMMA CharKeyBuffer ==
  ASSUME BufferInv, NEW ch \in Chars, CharKey(ch)
  PROVE  /\ BufferInv'
         /\ pos' = pos + 1 /\ line_len' = line_len + 1
         /\ \A i \in 0..line_len :
              line'[i] = IF i < pos THEN line[i] ELSE IF i = pos THEN ch ELSE line[i - 1]
<1> DEFINE buf == IF BufferFull THEN Grown ELSE line
           cap == line_capacity'
           moved == Memmove(buf, pos + 1, pos, line_len - pos)
<1> USE DEF BufferInv, EditsInBounds
<1>1. /\ line' = [moved EXCEPT ![pos] = ch]
      /\ line_capacity' = IF BufferFull THEN 2 * line_capacity ELSE line_capacity
      /\ pos' = pos + 1 /\ line_len' = line_len + 1
  BY DEF CharKey
<1>2. /\ buf \in [0..(cap - 1) -> Bytes]
      /\ \A i \in 0..(line_capacity - 1) : buf[i] = line[i]
  BY <1>1, GrownType
<1>3. /\ cap \in Nat \ {0} /\ line_len + 1 < cap
      /\ line_capacity <= cap
  BY <1>1 DEF BufferFull
<1> HIDE DEF buf, cap
<1>4. /\ moved \in [0..(cap - 1) -> Bytes]
      /\ \A i \in 0..(cap - 1) :
           moved[i] = IF i \in (pos + 1)..(pos + 1 + (line_len - pos) - 1)
                      THEN buf[i - (pos + 1) + pos] ELSE buf[i]
  BY <1>2, <1>3 DEF Memmove
<1> HIDE DEF moved
<1>5. \A i \in 0..line_len :
        line'[i] = IF i < pos THEN line[i] ELSE IF i = pos THEN ch ELSE line[i - 1]
  BY <1>1, <1>2, <1>3, <1>4
<1>6. line' \in [0..(cap - 1) -> Bytes]
  BY <1>1, <1>3, <1>4 DEF Bytes
<1>7. \A i \in 0..(line_len' - 1) : line'[i] \in Chars
  BY <1>1, <1>5
<1>8. line_len + 1 <= MaxLen
  BY EditorAssumption DEF CharKey
<1> QED
  BY <1>1, <1>3, <1>5, <1>6, <1>7, <1>8 DEF cap

(* Backspace takes the character before the cursor out of the buffer.      *)
LEMMA BackspaceBuffer ==
  ASSUME BufferInv, Backspace
  PROVE  /\ BufferInv'
         /\ pos # 0 =>
              /\ pos' = pos - 1 /\ line_len' = line_len - 1
              /\ \A i \in 0..(line_len - 2) :
                   line'[i] = IF i < pos - 1 THEN line[i] ELSE line[i + 1]
<1> USE DEF BufferInv, EditsInBounds
<1>1. CASE pos = 0
  BY <1>1 DEF Backspace
<1>2. CASE pos # 0
  <2> DEFINE moved == Memmove(line, pos - 1, pos, line_len - pos)
  <2>1. /\ line' = moved /\ line_capacity' = line_capacity
        /\ pos' = pos - 1 /\ line_len' = line_len - 1
    BY <1>2 DEF Backspace
  <2>2. /\ moved \in [0..(line_capacity - 1) -> Bytes]
        /\ \A i \in 0..(line_capacity - 1) :
             moved[i] = IF i \in (pos - 1)..((pos - 1) + (line_len - pos) - 1)
                        THEN line[i - (pos - 1) + pos] ELSE line[i]
    BY <1>2 DEF Memmove
  <2> HIDE DEF moved
  <2>3. \A i \in 0..(line_len - 2) :
          line'[i] = IF i < pos - 1 THEN line[i] ELSE line[i + 1]
    BY <1>2, <2>1, <2>2
  <2>4. \A i \in 0..(line_len' - 1) : line'[i] \in Chars
    BY <1>2, <2>1, <2>3
  <2> QED
    BY <1>2, <2>1, <2>2, <2>3, <2>4, EditorAssumption
<1> QED
  BY <1>1, <1>2

(* What eval is given is the line.                                         *)
LEMMA EnterBuffer ==
  ASSUME BufferInv, Enter
  PROVE  /\ BufferInv'
         /\ evaluated' = [i \in 1..line_len |-> line[i - 1]]
<1> USE DEF BufferInv, EditsInBounds
<1> DEFINE strlen == CHOOSE n \in DOMAIN line :
                       line'[n] = NUL /\ \A i \in 0..(n - 1) : line'[i] # NUL
<1>1. /\ line' = [line EXCEPT ![line_len] = NUL]
      /\ pos' = 0 /\ line_len' = 0 /\ line_capacity' = line_capacity
      /\ evaluated' = [i \in 1..strlen |-> line'[i - 1]]
  BY DEF Enter
<1>2. /\ line_len \in DOMAIN line /\ line'[line_len] = NUL
      /\ \A i \in 0..(line_len - 1) : line'[i] = line[i] /\ line'[i] # NUL
  BY <1>1, EditorAssumption
<1>3. strlen = line_len
  <2> DEFINE Ends(n) == line'[n] = NUL /\ \A i \in 0..(n - 1) : line'[i] # NUL
  <2>1. Ends(line_len)
    BY <1>2
  <2>2. \A n \in DOMAIN line : Ends(n) => n = line_len
    BY <1>2
  <2> HIDE DEF Ends
  <2>3. (CHOOSE n \in DOMAIN line : Ends(n)) = line_len
    BY <1>2, <2>1, <2>2
  <2> QED
    BY <2>3 DEF Ends
<1> HIDE DEF strlen
<1>4. BufferInv'
  BY <1>1, EditorAssumption DEF Bytes
<1> QED
  BY <1>1, <1>2, <1>3, <1>4

-----------------------------------------------------------------------------
LEMMA NextIInv == IInv /\ [Next]_vars => IInv'
<1> SUFFICES ASSUME IInv, [Next]_vars PROVE IInv'
  OBVIOUS
<1>1. CASE UNCHANGED vars
  BY <1>1 DEF IInv, BufferInv, ScreenInv, EditsInBounds, CursorOnPos, vars
<1>2. ASSUME Redraw, BufferInv'
      PROVE  IInv'
  <2>1. pos' \in Nat /\ line_len' \in Nat
    BY <1>2 DEF BufferInv
  <2> QED
    BY <1>2, <2>1, RedrawScreenInv DEF IInv, LineFits
<1>3. CASE Backspace
  BY <1>2, <1>3, BackspaceBuffer DEF IInv, Backspace
<1>4. CASE ArrowLeft
  BY <1>2, <1>4 DEF IInv, ArrowLeft, BufferInv, EditsInBounds
<1>5. CASE ArrowRight
  BY <1>2, <1>5 DEF IInv, ArrowRight, BufferInv, EditsInBounds
<1>6. CASE OtherKey
  BY <1>2, <1>6 DEF IInv, OtherKey, BufferInv, EditsInBounds
<1>7. ASSUME NEW ch \in Chars, CharKey(ch)
      PROVE  IInv'
  BY <1>2, <1>7, CharKeyBuffer DEF IInv, CharKey
<1>8. CASE CharKeyHalts
  BY <1>8 DEF IInv, CharKeyHalts, screen, BufferInv, ScreenInv, EditsInBounds, CursorOnPos
<1>9. CASE Enter
  <2>1. BufferInv' /\ pos' = 0
    BY <1>9, EnterBuffer DEF IInv, Enter
  <2>2. PICK y \in (cursor.y + 1)..(Rows - 1) \union {Rows - 1} :
          cursor_start' = [x |-> PromptLen, y |-> y]
    BY <1>9 DEF Enter
  <2>3. /\ cursor' = cursor_start' /\ anchor' = Cell(cursor_start')
        /\ PromptLen \in Int /\ Cols \in Int /\ Rows \in Nat \ {0}
    BY <1>9, EditorAssumption DEF Enter
  <2>4. ASSUME LineFits PROVE ScreenInv'
    <3>1. y \in 0..(Rows - 1)
      BY <2>3, <2>4 DEF IInv, ScreenInv, CursorOnPos, OnScreen
    <3>2. Cell(cursor_start') \in Int
      BY <2>2, <2>3, <3>1 DEF Cell
    <3> QED
      BY <2>1, <2>2, <2>3, <3>1, <3>2 DEF ScreenInv, CursorOnPos, OnScreen
  <2> QED
    BY <2>1, <2>4 DEF IInv, LineFits
<1> QED
  BY <1>1, <1>3, <1>4, <1>5, <1>6, <1>7, <1>8, <1>9 DEF Next

(* The invariant holds in every reachable state.                           *)
THEOREM IInvHolds == Spec => []IInv
BY InitIInv, NextIInv, PTL DEF Spec

(* No sequence of keys takes the cursor out of the line, or the line and   *)
(* its terminator out of the buffer run_prompt has for it.                 *)
THEOREM EditsInBoundsTheorem == Spec => []EditsInBounds
<1>1. IInv => EditsInBounds
  BY DEF IInv, BufferInv
<1> QED
  BY <1>1, IInvHolds, PTL

(* However the line wraps and the screen scrolls, run_prompt knows where   *)
(* the line begins, and its cursor is on the character at pos.             *)
THEOREM CursorOnPosTheorem == LineFits => (Spec => []CursorOnPos)
<1> SUFFICES ASSUME LineFits PROVE Spec => []CursorOnPos
  OBVIOUS
<1>1. IInv => CursorOnPos
  BY DEF IInv, ScreenInv
<1> QED
  BY <1>1, IInvHolds, PTL

-----------------------------------------------------------------------------
(* The refinement: the text on either side of the cursor.                  *)
LEMMA TextInBuffer ==
  BufferInv => /\ before \in Seq(Chars) /\ Len(before) = pos
               /\ \A i \in 1..pos : before[i] = line[i - 1]
               /\ after \in Seq(Chars) /\ Len(after) = line_len - pos
               /\ \A i \in 1..(line_len - pos) : after[i] = line[pos + i - 1]
BY DEF BufferInv, EditsInBounds, before, after

LEMMA InitRefines == Init => TL!Init
BY DEF Init, TL!Init, before, after

(* A character goes in before the cursor.                                  *)
LEMMA CharKeyRefines ==
  ASSUME BufferInv, NEW ch \in Chars, CharKey(ch)
  PROVE  TL!Insert(ch)
<1>1. BufferInv' /\ pos' = pos + 1 /\ line_len' = line_len + 1
  BY CharKeyBuffer
<1>2. \A i \in 0..line_len :
        line'[i] = IF i < pos THEN line[i] ELSE IF i = pos THEN ch ELSE line[i - 1]
  BY CharKeyBuffer
<1>3. before' = Append(before, ch)
  <2>1. before' = [i \in 1..(pos + 1) |-> line'[i - 1]]
    BY <1>1 DEF before
  <2>2. Append(before, ch) = [i \in 1..(pos + 1) |-> IF i = pos + 1 THEN ch ELSE line[i - 1]]
    BY DEF before, BufferInv, EditsInBounds
  <2>3. \A i \in 1..(pos + 1) : line'[i - 1] = IF i = pos + 1 THEN ch ELSE line[i - 1]
    BY <1>2 DEF BufferInv, EditsInBounds
  <2> QED
    BY <2>1, <2>2, <2>3
<1>4. after' = after
  <2>1. after' = [i \in 1..((line_len + 1) - (pos + 1)) |-> line'[(pos + 1) + i - 1]]
    BY <1>1 DEF after
  <2>2. (line_len + 1) - (pos + 1) = line_len - pos
    BY DEF BufferInv
  <2>3. \A i \in 1..(line_len - pos) : line'[(pos + 1) + i - 1] = line[pos + i - 1]
    BY <1>2 DEF BufferInv, EditsInBounds
  <2> QED
    BY <2>1, <2>2, <2>3 DEF after
<1> QED
  BY <1>3, <1>4 DEF TL!Insert, CharKey

LEMMA BackspaceRefines ==
  ASSUME BufferInv, Backspace
  PROVE  TL!Backspace \/ UNCHANGED TL!vars
<1>1. CASE pos = 0
  BY <1>1 DEF Backspace, before, after, TL!vars
<1>2. CASE pos # 0
  <2>1. /\ pos' = pos - 1 /\ line_len' = line_len - 1
        /\ \A i \in 0..(line_len - 2) :
             line'[i] = IF i < pos - 1 THEN line[i] ELSE line[i + 1]
    BY <1>2, BackspaceBuffer
  <2>2. before # <<>>
    BY <1>2, TextInBuffer DEF BufferInv
  <2>3. line[pos - 1] \in Chars /\ before = Append(before', line[pos - 1])
    BY <1>2, <2>1 DEF before, BufferInv, EditsInBounds
  <2>4. after' = after
    BY <1>2, <2>1 DEF after, BufferInv, EditsInBounds
  <2> QED
    BY <2>2, <2>3, <2>4 DEF TL!Backspace, Backspace
<1> QED
  BY <1>1, <1>2

LEMMA ArrowLeftRefines ==
  ASSUME BufferInv, BufferInv', ArrowLeft
  PROVE  TL!Left \/ UNCHANGED TL!vars
<1>1. CASE pos = 0
  BY <1>1 DEF ArrowLeft, before, after, TL!vars
<1>2. CASE pos # 0
  <2>1. pos' = pos - 1 /\ line_len' = line_len /\ line' = line
    BY <1>2 DEF ArrowLeft
  <2>2. before # <<>>
    BY <1>2, TextInBuffer DEF BufferInv
  <2>3. line[pos - 1] \in Chars /\ before = Append(before', line[pos - 1])
    BY <1>2, <2>1 DEF before, BufferInv, EditsInBounds
  <2>4. before \o after = before' \o after'
    BY <1>2, <2>1 DEF before, after, BufferInv, EditsInBounds
  <2> QED
    BY <2>2, <2>3, <2>4 DEF TL!Left, ArrowLeft
<1> QED
  BY <1>1, <1>2

LEMMA ArrowRightRefines ==
  ASSUME BufferInv, ArrowRight
  PROVE  TL!Right \/ UNCHANGED TL!vars
<1>1. CASE pos >= line_len
  BY <1>1 DEF ArrowRight, before, after, TL!vars, BufferInv, EditsInBounds
<1>2. CASE pos < line_len
  <2>1. pos' = pos + 1 /\ line_len' = line_len /\ line' = line
    BY <1>2 DEF ArrowRight
  <2>2. after # <<>> /\ Head(after) = line[pos]
    BY <1>2, TextInBuffer DEF BufferInv
  <2>3. before' = Append(before, line[pos])
    BY <1>2, <2>1 DEF before, BufferInv, EditsInBounds
  <2>4. after' = Tail(after)
    BY <1>2, <2>1 DEF after, BufferInv, EditsInBounds
  <2> QED
    BY <2>2, <2>3, <2>4 DEF TL!Right, ArrowRight
<1> QED
  BY <1>1, <1>2 DEF BufferInv

LEMMA EnterRefines ==
  ASSUME BufferInv, Enter
  PROVE  TL!Enter
<1>1. /\ evaluated' = [i \in 1..line_len |-> line[i - 1]]
      /\ pos' = 0 /\ line_len' = 0
  BY EnterBuffer DEF Enter
<1>2. before \o after = [i \in 1..line_len |-> line[i - 1]]
  BY DEF before, after, BufferInv, EditsInBounds
<1>3. before' = <<>> /\ after' = <<>>
  BY <1>1 DEF before, after
<1> QED
  BY <1>1, <1>2, <1>3 DEF TL!Enter

(* Every step of the editor is one of TextLine, or leaves the text alone.  *)
LEMMA NextRefines == IInv /\ IInv' /\ [Next]_vars => [TL!Next]_TL!vars
<1> SUFFICES ASSUME IInv, IInv', [Next]_vars PROVE TL!Next \/ UNCHANGED TL!vars
  OBVIOUS
<1> USE DEF IInv
<1>1. CASE UNCHANGED vars
  BY <1>1 DEF vars, TL!vars, before, after
<1>2. CASE Backspace
  BY <1>2, BackspaceRefines DEF TL!Next
<1>3. CASE ArrowLeft
  BY <1>3, ArrowLeftRefines DEF TL!Next
<1>4. CASE ArrowRight
  BY <1>4, ArrowRightRefines DEF TL!Next
<1>5. CASE OtherKey
  BY <1>5 DEF OtherKey, TL!vars, before, after
<1>6. ASSUME NEW ch \in Chars, CharKey(ch)
      PROVE  TL!Next
  BY <1>6, CharKeyRefines DEF TL!Next
<1>7. CASE CharKeyHalts
  BY <1>7 DEF CharKeyHalts, TL!vars, before, after
<1>8. CASE Enter
  BY <1>8, EnterRefines DEF TL!Next
<1> QED
  BY <1>1, <1>2, <1>3, <1>4, <1>5, <1>6, <1>7, <1>8 DEF Next

(* run_prompt implements TextLine: the buffer holds what was typed,        *)
(* whenever it grew, and eval is given exactly that.                       *)
THEOREM ImplementsTextLineTheorem == Spec => ImplementsTextLine
<1>1. Init => TL!Init
  BY InitRefines
<1>2. IInv /\ IInv' /\ [Next]_vars => [TL!Next]_TL!vars
  BY NextRefines
<1> QED
  BY <1>1, <1>2, IInvHolds, PTL DEF Spec, ImplementsTextLine, TL!Spec

-----------------------------------------------------------------------------
(* The keys, on their way to the prompt                                    *)
AnyCode == [key : DOMAIN WireCodes, release : BOOLEAN]
WireOf(code) == WireCodes[code.key]

(* The state of the decoder before byte n of a key. *)
StateBefore(make, n) == IF n > 1 /\ make[n - 1] = 224 THEN "E0" ELSE "INIT"

LEMMA RowIs ==
  /\ \A e : e \in Row["INIT"] <=>
       \/ e = <<30, "A">> \/ e = <<42, "SHIFT_LEFT">> \/ e = <<54, "SHIFT_RIGHT">>
       \/ e = <<29, "CONTROL_LEFT">> \/ e = <<72, "NUMPAD8">>
  /\ \A e : e \in Row["E0"] <=> e = <<72, "ARROW_UP">>
BY DEF Row

LEMMA KeysAre == Keys = {"A", "SHIFT_LEFT", "SHIFT_RIGHT", "CONTROL_LEFT", "NUMPAD8", "ARROW_UP"}
BY DEF Keys, Row

(* What a byte stands for in either state. *)
LEMMA CodeOfByte ==
  ASSUME NEW s \in {"INIT", "E0"}, NEW b \in Nat
  PROVE  /\ \A e \in Row[s] :
              e[1] = b % 128 => [key |-> e[2], release |-> b >= 128] \in CodesFor(s, b)
         /\ \A c \in CodesFor(s, b) :
              \E e \in Row[s] : e[1] = b % 128 /\ c = [key |-> e[2], release |-> b >= 128]
<1> DEFINE S == {e \in Row[s] : e[1] = b % 128}
           Code(e) == [key |-> e[2], release |-> b >= 128]
<1>1. CodesFor(s, b) = {Code(e) : e \in S}
  BY DEF CodesFor
<1> HIDE DEF Code
<1>2. /\ \A e \in Row[s] : e[1] = b % 128 => Code(e) \in CodesFor(s, b)
      /\ \A c \in CodesFor(s, b) : \E e \in Row[s] : e[1] = b % 128 /\ c = Code(e)
  BY <1>1
<1> QED
  BY <1>2, Zenon DEF Code

LEMMA WireIs ==
  ASSUME NEW k \in DOMAIN WireCodes
  PROVE  \/ k = "A" /\ WireCodes[k] = <<30>>
         \/ k = "SHIFT_LEFT" /\ WireCodes[k] = <<42>>
         \/ k = "SHIFT_RIGHT" /\ WireCodes[k] = <<54>>
         \/ k = "CONTROL_LEFT" /\ WireCodes[k] = <<29>>
         \/ k = "NUMPAD8" /\ WireCodes[k] = <<72>>
         \/ k = "ARROW_UP" /\ WireCodes[k] = <<224, 72>>
         \/ k = "RIGHT_CONTROL" /\ WireCodes[k] = <<224, 29>>
         \/ k = "PRINT_SCREEN" /\ WireCodes[k] = <<224, 42, 224, 55>>
         \/ k = "WINDOWS" /\ WireCodes[k] = <<224, 91>>
         \/ k = "KEY_56" /\ WireCodes[k] = <<86>>
         \/ k = "OVERRUN" /\ WireCodes[k] = <<0>>
BY DEF WireCodes

(* The byte of a press or a release. *)
Byte(m, r) == IF r THEN m + 128 ELSE m

LEMMA ByteIs ==
  ASSUME NEW m \in 0..127, NEW r \in BOOLEAN
  PROVE  Byte(m, r) \in Nat /\ Byte(m, r) % 128 = m /\ (Byte(m, r) >= 128) = r
BY DEF Byte

LEMMA NoCode ==
  ASSUME NEW s \in {"INIT", "E0"}, NEW b \in Nat, \A e \in Row[s] : e[1] # b % 128
  PROVE  CodesFor(s, b) = {}
BY CodeOfByte

LEMMA OneCode ==
  ASSUME NEW s \in {"INIT", "E0"}, NEW b \in Nat, NEW d \in Row[s], d[1] = b % 128,
         \A e \in Row[s] : e[1] = b % 128 => e = d
  PROVE  CodesFor(s, b) = {[key |-> d[2], release |-> b >= 128]}
<1> DEFINE c == [key |-> d[2], release |-> b >= 128]
<1>1. c \in CodesFor(s, b)
  BY CodeOfByte
<1>2. \A a \in CodesFor(s, b) : a = c
  BY CodeOfByte
<1> HIDE DEF c
<1>3. CodesFor(s, b) = {c}
  BY <1>1, <1>2
<1> QED
  BY <1>3 DEF c

(* Of the bytes of a key only the last one is a code, that of the key; and *)
(* none is, if the key has no code.                                        *)
Decoded(code, n) ==
  LET s == StateBefore(WireOf(code), n)
      b == BytesOf(code)[n]
  IN  /\ b \in Nat
      /\ CodesFor(s, b) = IF n = Len(WireOf(code)) /\ code.key \in Keys THEN {code} ELSE {}
      /\ IF n = Len(WireOf(code)) THEN s = "INIT" => b # 224
         ELSE (s = "INIT" /\ b = 224) <=> StateBefore(WireOf(code), n + 1) = "E0"

LEMMA ByteOf ==
  ASSUME NEW code \in AnyCode, NEW n \in DOMAIN WireOf(code)
  PROVE  BytesOf(code)[n] = IF code.release /\ WireOf(code)[n] # 224
                            THEN WireOf(code)[n] + 128 ELSE WireOf(code)[n]
BY DEF BytesOf, WireOf

LEMMA Prefix ==
  224 \in Nat /\ CodesFor("INIT", 224) = {}
<1>1. 224 \in Nat /\ 224 % 128 = 96
  OBVIOUS
<1>2. \A e \in Row["INIT"] : e[1] # 96
  BY RowIs
<1> QED
  BY <1>1, <1>2, NoCode

(* What the tables say of the last byte of a key. *)
Known(s, m, k) ==
  /\ k \in Keys /\ <<m, k>> \in Row[s]
  /\ \A e \in Row[s] : e[1] = m => e = <<m, k>>

Unknown(s, m) == \A e \in Row[s] : e[1] # m

Ends(s, m, k) == Known(s, m, k) \/ (Unknown(s, m) /\ k \notin Keys)

Form(k, make) ==
  \/ \E m \in (0..127) \ {96} : make = <<m>> /\ Ends("INIT", m, k)
  \/ \E m \in 0..127 : make = <<224, m>> /\ Ends("E0", m, k)
  \/ \E j, m \in 0..127 : make = <<224, j, 224, m>> /\ Unknown("E0", j) /\ Ends("E0", m, k)

LEMMA EveryForm ==
  ASSUME NEW k \in DOMAIN WireCodes
  PROVE  Form(k, WireCodes[k])
<1>1. CASE k = "A"
  <2>1. WireCodes[k] = <<30>>
    BY <1>1, WireIs
  <2>2. Ends("INIT", 30, k)
    BY <1>1, RowIs, KeysAre DEF Ends, Known, Unknown
  <2>3. \E m \in (0..127) \ {96} : <<30>> = <<m>> /\ Ends("INIT", m, k)
    BY <2>2
  <2> QED
    BY <2>1, <2>3 DEF Form
<1>2. CASE k = "SHIFT_LEFT"
  <2>1. WireCodes[k] = <<42>>
    BY <1>2, WireIs
  <2>2. Ends("INIT", 42, k)
    BY <1>2, RowIs, KeysAre DEF Ends, Known, Unknown
  <2>3. \E m \in (0..127) \ {96} : <<42>> = <<m>> /\ Ends("INIT", m, k)
    BY <2>2
  <2> QED
    BY <2>1, <2>3 DEF Form
<1>3. CASE k = "SHIFT_RIGHT"
  <2>1. WireCodes[k] = <<54>>
    BY <1>3, WireIs
  <2>2. Ends("INIT", 54, k)
    BY <1>3, RowIs, KeysAre DEF Ends, Known, Unknown
  <2>3. \E m \in (0..127) \ {96} : <<54>> = <<m>> /\ Ends("INIT", m, k)
    BY <2>2
  <2> QED
    BY <2>1, <2>3 DEF Form
<1>4. CASE k = "CONTROL_LEFT"
  <2>1. WireCodes[k] = <<29>>
    BY <1>4, WireIs
  <2>2. Ends("INIT", 29, k)
    BY <1>4, RowIs, KeysAre DEF Ends, Known, Unknown
  <2>3. \E m \in (0..127) \ {96} : <<29>> = <<m>> /\ Ends("INIT", m, k)
    BY <2>2
  <2> QED
    BY <2>1, <2>3 DEF Form
<1>5. CASE k = "NUMPAD8"
  <2>1. WireCodes[k] = <<72>>
    BY <1>5, WireIs
  <2>2. Ends("INIT", 72, k)
    BY <1>5, RowIs, KeysAre DEF Ends, Known, Unknown
  <2>3. \E m \in (0..127) \ {96} : <<72>> = <<m>> /\ Ends("INIT", m, k)
    BY <2>2
  <2> QED
    BY <2>1, <2>3 DEF Form
<1>6. CASE k = "ARROW_UP"
  <2>1. WireCodes[k] = <<224, 72>>
    BY <1>6, WireIs
  <2>2. Ends("E0", 72, k)
    BY <1>6, RowIs, KeysAre DEF Ends, Known, Unknown
  <2>3. \E m \in 0..127 : <<224, 72>> = <<224, m>> /\ Ends("E0", m, k)
    BY <2>2
  <2> QED
    BY <2>1, <2>3 DEF Form
<1>7. CASE k = "RIGHT_CONTROL"
  <2>1. WireCodes[k] = <<224, 29>>
    BY <1>7, WireIs
  <2>2. Ends("E0", 29, k)
    BY <1>7, RowIs, KeysAre DEF Ends, Known, Unknown
  <2>3. \E m \in 0..127 : <<224, 29>> = <<224, m>> /\ Ends("E0", m, k)
    BY <2>2
  <2> QED
    BY <2>1, <2>3 DEF Form
<1>8. CASE k = "PRINT_SCREEN"
  <2>1. WireCodes[k] = <<224, 42, 224, 55>>
    BY <1>8, WireIs
  <2>2. \E j, m \in 0..127 : /\ <<224, 42, 224, 55>> = <<224, j, 224, m>>
                             /\ Unknown("E0", j) /\ Ends("E0", m, k)
    BY <1>8, RowIs, KeysAre DEF Ends, Known, Unknown
  <2> QED
    BY <2>1, <2>2 DEF Form
<1>9. CASE k = "WINDOWS"
  <2>1. WireCodes[k] = <<224, 91>>
    BY <1>9, WireIs
  <2>2. Ends("E0", 91, k)
    BY <1>9, RowIs, KeysAre DEF Ends, Known, Unknown
  <2>3. \E m \in 0..127 : <<224, 91>> = <<224, m>> /\ Ends("E0", m, k)
    BY <2>2
  <2> QED
    BY <2>1, <2>3 DEF Form
<1>10. CASE k = "KEY_56"
  <2>1. WireCodes[k] = <<86>>
    BY <1>10, WireIs
  <2>2. Ends("INIT", 86, k)
    BY <1>10, RowIs, KeysAre DEF Ends, Known, Unknown
  <2>3. \E m \in (0..127) \ {96} : <<86>> = <<m>> /\ Ends("INIT", m, k)
    BY <2>2
  <2> QED
    BY <2>1, <2>3 DEF Form
<1>11. CASE k = "OVERRUN"
  <2>1. WireCodes[k] = <<0>>
    BY <1>11, WireIs
  <2>2. Ends("INIT", 0, k)
    BY <1>11, RowIs, KeysAre DEF Ends, Known, Unknown
  <2>3. \E m \in (0..127) \ {96} : <<0>> = <<m>> /\ Ends("INIT", m, k)
    BY <2>2
  <2> QED
    BY <2>1, <2>3 DEF Form
<1> QED
  BY <1>1, <1>2, <1>3, <1>4, <1>5, <1>6, <1>7, <1>8, <1>9, <1>10, <1>11, WireIs

LEMMA PlainByte ==
  ASSUME NEW s \in {"INIT", "E0"}, NEW m \in 0..127, NEW r \in BOOLEAN, Unknown(s, m)
  PROVE  Byte(m, r) \in Nat /\ CodesFor(s, Byte(m, r)) = {}
<1> DEFINE b == Byte(m, r)
<1>1. b \in Nat /\ b % 128 = m
  BY ByteIs
<1>2. Unknown(s, b % 128)
  BY <1>1, Zenon
<1> HIDE DEF b
<1>3. CodesFor(s, b) = {}
  BY <1>1, <1>2, NoCode DEF Unknown
<1> QED
  BY <1>1, <1>3, Zenon DEF b

LEMMA LastByte ==
  ASSUME NEW s \in {"INIT", "E0"}, NEW m \in 0..127, NEW r \in BOOLEAN, NEW k, Ends(s, m, k)
  PROVE  /\ Byte(m, r) \in Nat
         /\ CodesFor(s, Byte(m, r)) = IF k \in Keys THEN {[key |-> k, release |-> r]} ELSE {}
<1> DEFINE b == Byte(m, r)
           d == <<b % 128, k>>
<1>1. b \in Nat /\ b % 128 = m /\ (b >= 128) = r
  BY ByteIs
<1>2. CASE Known(s, m, k)
  <2>1. Known(s, b % 128, k)
    BY <1>1, <1>2, Zenon
  <2> HIDE DEF b
  <2>2. /\ d \in Row[s] /\ (\A e \in Row[s] : e[1] = b % 128 => e = d)
        /\ d[1] = b % 128 /\ d[2] = k /\ k \in Keys
    BY <2>1 DEF Known
  <2> HIDE DEF d
  <2>3. CodesFor(s, b) = {[key |-> d[2], release |-> b >= 128]}
    BY <1>1, <2>2, OneCode
  <2>4. [key |-> d[2], release |-> b >= 128] = [key |-> k, release |-> r]
    BY <1>1, <2>2, Zenon
  <2>5. CodesFor(s, b) = {[key |-> k, release |-> r]}
    BY <2>3, <2>4
  <2> QED
    BY <1>1, <2>2, <2>5, Zenon DEF b
<1>3. CASE Unknown(s, m) /\ k \notin Keys
  BY <1>3, PlainByte
<1> QED
  BY <1>2, <1>3 DEF Ends

LEMMA DecodedRight ==
  ASSUME NEW code \in AnyCode, NEW n \in 1..Len(WireOf(code))
  PROVE  Decoded(code, n)
<1> DEFINE k == code.key
           r == code.release
           b == BytesOf(code)[n]
           make == WireOf(code)
<1>1. /\ k \in DOMAIN WireCodes /\ r \in BOOLEAN /\ code = [key |-> k, release |-> r]
      /\ make = WireCodes[k] /\ Form(k, make)
  BY EveryForm DEF AnyCode, WireOf
<1>2. n \in DOMAIN make => b = IF r /\ make[n] # 224 THEN make[n] + 128 ELSE make[n]
  BY ByteOf
<1> HIDE DEF make, b, k, r
<1>3. CASE \E m \in (0..127) \ {96} : make = <<m>> /\ Ends("INIT", m, k)
  <2>1. PICK m \in (0..127) \ {96} : make = <<m>> /\ Ends("INIT", m, k)
    BY <1>3
  <2>2. n = 1 /\ Len(make) = 1 /\ n \in DOMAIN make /\ make[n] = m
    BY <2>1 DEF make
  <2>3. b = Byte(m, r) /\ b # 224
    BY <1>1, <1>2, <2>2 DEF Byte
  <2>4. b \in Nat /\ CodesFor("INIT", b) = IF k \in Keys THEN {code} ELSE {}
    <3>1. m \in 0..127 /\ Ends("INIT", m, k) /\ b = Byte(m, r)
      BY <2>1, <2>3
    <3> QED
      BY <1>1, <3>1, LastByte
  <2>5. StateBefore(make, n) = "INIT"
    BY <2>2 DEF StateBefore
  <2> QED
    BY <2>2, <2>3, <2>4, <2>5 DEF Decoded, make, b, k
<1>4. CASE \E m \in 0..127 : make = <<224, m>> /\ Ends("E0", m, k)
  <2>1. PICK m \in 0..127 : make = <<224, m>> /\ Ends("E0", m, k)
    BY <1>4
  <2>2. Len(make) = 2 /\ n \in DOMAIN make /\ n \in {1, 2} /\ make[1] = 224 /\ make[2] = m
    BY <2>1 DEF make
  <2>3. CASE n = 1
    <3>1. b = 224 /\ StateBefore(make, n) = "INIT" /\ StateBefore(make, n + 1) = "E0"
      BY <1>2, <2>2, <2>3 DEF StateBefore
    <3> QED
      BY <2>2, <2>3, <3>1, Prefix DEF Decoded, make, b
  <2>4. CASE n = 2
    <3>1. b = Byte(m, r) /\ StateBefore(make, n) = "E0"
      BY <1>2, <2>2, <2>4 DEF StateBefore, Byte
    <3>2. b \in Nat /\ CodesFor("E0", b) = IF k \in Keys THEN {code} ELSE {}
      BY <1>1, <2>1, <3>1, LastByte
    <3> QED
      BY <2>2, <2>4, <3>1, <3>2 DEF Decoded, make, b, k
  <2> QED
    BY <2>2, <2>3, <2>4
<1>5. CASE \E j, m \in 0..127 : make = <<224, j, 224, m>> /\ Unknown("E0", j) /\ Ends("E0", m, k)
  <2>1. PICK j \in 0..127, m \in 0..127 :
          make = <<224, j, 224, m>> /\ Unknown("E0", j) /\ Ends("E0", m, k)
    BY <1>5
  <2>2. /\ Len(make) = 4 /\ n \in DOMAIN make /\ n \in {1, 2, 3, 4}
        /\ make[1] = 224 /\ make[2] = j /\ make[3] = 224 /\ make[4] = m
    BY <2>1 DEF make
  <2>3. CASE n \in {1, 3}
    <3>1. b = 224 /\ StateBefore(make, n) = "INIT" /\ StateBefore(make, n + 1) = "E0"
      BY <1>2, <2>2, <2>3 DEF StateBefore
    <3> QED
      BY <2>2, <2>3, <3>1, Prefix DEF Decoded, make, b
  <2>4. CASE n = 4
    <3>1. b = Byte(m, r) /\ StateBefore(make, n) = "E0"
      BY <1>2, <2>2, <2>4 DEF StateBefore, Byte
    <3>2. b \in Nat /\ CodesFor("E0", b) = IF k \in Keys THEN {code} ELSE {}
      BY <1>1, <2>1, <3>1, LastByte
    <3> QED
      BY <2>2, <2>4, <3>1, <3>2 DEF Decoded, make, b, k
  <2>5. CASE n = 2
    <3>0. make[n] = j /\ j # 224 /\ b = IF r /\ make[n] # 224 THEN make[n] + 128 ELSE make[n]
      BY <1>2, <2>1, <2>2, <2>5
    <3>1. b = Byte(j, r)
      BY <3>0 DEF Byte
    <3>2. StateBefore(make, n) = "E0" /\ StateBefore(make, n + 1) = "INIT"
      BY <2>2, <2>5 DEF StateBefore
    <3>3. b \in Nat /\ CodesFor("E0", b) = {}
      BY <1>1, <2>1, <3>1, PlainByte
    <3> QED
      BY <2>2, <2>5, <3>2, <3>3 DEF Decoded, make, b
  <2> QED
    BY <2>2, <2>3, <2>4, <2>5
<1> QED
  BY <1>1, <1>3, <1>4, <1>5 DEF Form

-----------------------------------------------------------------------------
Entries == [scan_code : KQ!Codes \union {NoKey}, modifiers : SUBSET {"shift", "ctrl"}]

(* Where a poll is: what it has seen is still there. As long as no key has *)
(* been stored beyond the array.                                           *)
KeysInv ==
  /\ queue \in [0..(QUEUE_LEN - 1) -> Entries]
  /\ modifiers \in SUBSET {"shift", "ctrl"}
  /\ queue_head \in Nat /\ queue_tail \in Nat
  /\ queue_tail <= queue_head /\ queue_head <= QUEUE_LEN
  /\ queue_head - queue_tail < QUEUE_LEN
  /\ pc \in {"idle", "read", "advance"}
  /\ pc # "idle" => queue_tail < queue_head
  /\ pc = "advance" => slot = queue[queue_tail]

(* From byte n on the key is still on the wire, and the decoder is where   *)
(* the bytes before have taken it.                                         *)
Left(n) ==
  /\ Len(wire) = Len(WireOf(key)) - n + 1
  /\ \A i \in 1..Len(wire) : wire[i] = BytesOf(key)[n - 1 + i]
  /\ scan_state = StateBefore(WireOf(key), n)

WireInv ==
  \/ wire = <<>> /\ scan_state = "INIT"
  \/ /\ key \in AnyCode /\ wire \in Seq(Nat) /\ wire # <<>>
     /\ \E n \in 1..Len(WireOf(key)) : Left(n)

KbdInv == KeysInv /\ WireInv
KbdIInv == InArray => KbdInv

LEMMA WireLength ==
  ASSUME NEW code \in AnyCode
  PROVE  /\ Len(WireOf(code)) \in Nat \ {0}
         /\ DOMAIN WireOf(code) = 1..Len(WireOf(code))
         /\ BytesOf(code) \in Seq(Nat) /\ Len(BytesOf(code)) = Len(WireOf(code))
<1> DEFINE make == WireOf(code)
           n == Len(make)
<1>1. code.key \in DOMAIN WireCodes /\ make = WireCodes[code.key] /\ Form(code.key, make)
  BY EveryForm DEF AnyCode, WireOf
<1>2. n \in Nat \ {0} /\ DOMAIN make = 1..n
  <2>1. CASE \E m \in (0..127) \ {96} : make = <<m>> /\ Ends("INIT", m, code.key)
    BY <2>1 DEF make
  <2>2. CASE \E m \in 0..127 : make = <<224, m>> /\ Ends("E0", m, code.key)
    BY <2>2
  <2>3. CASE \E j, m \in 0..127 : /\ make = <<224, j, 224, m>>
                                  /\ Unknown("E0", j) /\ Ends("E0", m, code.key)
    BY <2>3
  <2> QED
    BY <1>1, <2>1, <2>2, <2>3 DEF Form
<1>3. \A i \in 1..n : BytesOf(code)[i] \in Nat
  <2> SUFFICES ASSUME NEW i \in 1..n PROVE BytesOf(code)[i] \in Nat
    OBVIOUS
  <2>1. Decoded(code, i)
    BY DecodedRight
  <2> QED
    BY <2>1, Zenon DEF Decoded
<1>4. DOMAIN BytesOf(code) = 1..n /\ BytesOf(code) = [i \in 1..n |-> BytesOf(code)[i]]
  BY <1>2 DEF BytesOf, WireOf
<1> HIDE DEF n
<1>5. BytesOf(code) \in [1..n -> Nat]
  BY <1>3, <1>4
<1>6. BytesOf(code) \in Seq(Nat) /\ Len(BytesOf(code)) = n
  BY <1>2, <1>5
<1> QED
  BY <1>2, <1>6 DEF n

LEMMA TypeStep ==
  ASSUME KbdInv, NEW code \in [key : TypedKeys, release : BOOLEAN], Type(code)
  PROVE  WireInv' /\ UNCHANGED <<modifiers, queue, queue_head, queue_tail, pc, slot, polled, last>>
<1>1. code \in AnyCode
  BY QueueAssumption DEF AnyCode
<1>2. /\ wire = <<>> /\ key' = code /\ wire' = BytesOf(code)
      /\ scan_state' = scan_state
      /\ UNCHANGED <<modifiers, queue, queue_head, queue_tail, pc, slot, polled, last>>
  BY DEF Type
<1>3. scan_state = "INIT"
  BY <1>2 DEF KbdInv, WireInv
<1>4. /\ Len(wire') = Len(WireOf(code)) /\ Len(WireOf(code)) \in Nat \ {0} /\ wire' \in Seq(Nat)
  BY <1>1, <1>2, WireLength
<1>5. StateBefore(WireOf(code), 1) = "INIT"
  BY DEF StateBefore
<1>6. 1 \in 1..Len(WireOf(key')) /\ Left(1)'
  BY <1>2, <1>3, <1>4, <1>5 DEF Left
<1>7. wire' # <<>>
  BY <1>4
<1> QED
  BY <1>1, <1>2, <1>4, <1>6, <1>7 DEF WireInv

(* An interrupt takes one byte. It is the last of a key with a code, and   *)
(* the key is queued; or nothing but the decoder changes.                  *)
LEMMA IrqStep ==
  ASSUME KbdInv, Irq
  PROVE  /\ UNCHANGED <<queue_tail, pc, slot, polled>>
         /\ \/ WireInv' /\ UNCHANGED <<modifiers, queue, queue_head, last>>
            \/ /\ wire' = <<>> /\ scan_state' = "INIT"
               /\ key \in KQ!Codes /\ Enqueue(key) /\ last' = key
<1>1. /\ wire # <<>> /\ wire' = Tail(wire) /\ scan_state' = NextState(Head(wire))
      /\ IF CodesFor(scan_state, Head(wire)) = {}
         THEN UNCHANGED <<modifiers, queue, queue_head>>
         ELSE \E code \in CodesFor(scan_state, Head(wire)) : Enqueue(code)
      /\ IF Len(wire) = 1
         THEN last' = (IF key.key \in Keys THEN key ELSE last)
         ELSE UNCHANGED <<last, key>>
      /\ UNCHANGED <<queue_tail, pc, slot, polled>>
  BY DEF Irq
<1>2. /\ key \in AnyCode /\ wire \in Seq(Nat)
      /\ \E n \in 1..Len(WireOf(key)) : Left(n)
  BY <1>1 DEF KbdInv, WireInv
<1>3. PICK n \in 1..Len(WireOf(key)) : Left(n)
  BY <1>2
<1> DEFINE N == Len(WireOf(key))
           b == BytesOf(key)[n]
<1>4. N \in Nat \ {0} /\ n \in 1..N
  BY <1>2, WireLength
<1>5. Len(wire) \in Nat \ {0} /\ Head(wire) = wire[1]
  BY <1>1, <1>2
<1>6. Head(wire) = b /\ Len(wire) = N - n + 1 /\ scan_state = StateBefore(WireOf(key), n)
  BY <1>3, <1>4, <1>5 DEF Left
<1>7. /\ CodesFor(scan_state, b) = IF n = N /\ key.key \in Keys THEN {key} ELSE {}
      /\ IF n = N THEN scan_state = "INIT" => b # 224
         ELSE (scan_state = "INIT" /\ b = 224) <=> StateBefore(WireOf(key), n + 1) = "E0"
  <2>1. Decoded(key, n)
    BY <1>2, <1>3, DecodedRight
  <2> QED
    BY <1>6, <2>1, Zenon DEF Decoded
<1>8. NextState(b) = IF scan_state = "INIT" /\ b = 224 THEN "E0" ELSE "INIT"
  BY DEF NextState
<1> HIDE DEF b, N
<1>9. CASE n = N
  <2>1. Len(wire) = 1 /\ wire' = <<>> /\ scan_state' = "INIT"
    BY <1>1, <1>2, <1>4, <1>6, <1>7, <1>8, <1>9
  <2>2. CASE key.key \in Keys
    <3>1. CodesFor(scan_state, Head(wire)) = {key} /\ last' = key
      BY <1>1, <1>6, <1>7, <1>9, <2>1, <2>2
    <3>2. Enqueue(key)
      BY <1>1, <3>1
    <3>3. key \in KQ!Codes
      BY <1>2, <2>2 DEF KQ!Codes, AnyCode
    <3> QED
      BY <1>1, <1>2, <2>1, <3>1, <3>2, <3>3
  <2>3. CASE key.key \notin Keys
    <3>1. CodesFor(scan_state, Head(wire)) = {} /\ last' = last
      BY <1>1, <1>6, <1>7, <1>9, <2>1, <2>3
    <3>2. WireInv'
      BY <2>1 DEF WireInv
    <3> QED
      BY <1>1, <1>2, <3>1, <3>2
  <2> QED
    BY <2>2, <2>3
<1>10. CASE n # N
  <2>1. Len(wire) # 1 /\ CodesFor(scan_state, Head(wire)) = {} /\ n + 1 \in 1..N
    BY <1>4, <1>6, <1>7, <1>10
  <2>2. /\ UNCHANGED <<modifiers, queue, queue_head, last, key>>
        /\ wire' \in Seq(Nat) /\ Len(wire') = Len(wire) - 1
        /\ \A i \in 1..Len(wire') : wire'[i] = wire[i + 1]
    BY <1>1, <1>2, <1>5, <2>1
  <2>3. scan_state' = StateBefore(WireOf(key), n + 1)
    BY <1>1, <1>6, <1>7, <1>8, <1>10 DEF StateBefore
  <2>4. \A i \in 1..Len(wire') : wire'[i] = BytesOf(key)[(n + 1) - 1 + i]
    <3> SUFFICES ASSUME NEW i \in 1..Len(wire') PROVE wire'[i] = BytesOf(key)[(n + 1) - 1 + i]
      OBVIOUS
    <3>1. i \in Int /\ i + 1 \in 1..Len(wire) /\ wire'[i] = wire[i + 1]
      BY <1>5, <2>2
    <3>2. wire[i + 1] = BytesOf(key)[n - 1 + (i + 1)]
      BY <1>3, <3>1 DEF Left
    <3>3. n - 1 + (i + 1) = (n + 1) - 1 + i
      BY <1>4, <3>1
    <3> QED
      BY <3>1, <3>2, <3>3
  <2>5. Len(wire') = N - (n + 1) + 1
    BY <1>4, <1>6, <2>2
  <2>6. Left(n + 1)'
    BY <2>2, <2>3, <2>4, <2>5 DEF Left, N
  <2>7. WireInv'
    <3>1. wire' # <<>>
      BY <1>5, <1>6, <2>1, <2>2
    <3> QED
      BY <1>2, <2>1, <2>2, <2>6, <3>1 DEF WireInv, N
  <2> QED
    BY <1>1, <1>2, <2>2, <2>7
<1> QED
  BY <1>9, <1>10

-----------------------------------------------------------------------------
(* As long as the head is in the array or just past it, the queue is full  *)
(* exactly when all places but one are taken.                              *)
LEMMA FullIs ==
  ASSUME KeysInv
  PROVE  QueueFull <=> queue_head - queue_tail = QUEUE_LEN - 1
<1> DEFINE h == queue_head + 1
           t == queue_tail
           n == QUEUE_LEN
           q == h \div n
           r == h % n
<1>1. /\ h \in Nat /\ t \in Nat /\ n \in Nat \ {0} /\ t < h /\ h - t <= n /\ h < 2 * n
  BY QueueAssumption DEF KeysInv
<1>2. QueueFull <=> r = t
  BY DEF QueueFull
<1>3. q \in Int /\ r \in 0..(n - 1) /\ h = q * n + r
  <2> HIDE DEF h, n
  <2>1. h \in Int
    BY <1>1
  <2> QED
    BY <1>1, <2>1, DivMod
<1> HIDE DEF q, r
<1>4. CASE q >= 2
  <2>1. q * n >= 2 * n
    BY <1>1, <1>3, <1>4
  <2> QED
    BY <1>1, <1>3, <2>1
<1>5. CASE q = 1
  <2>1. h = n + r
    BY <1>1, <1>3, <1>5
  <2> QED
    BY <1>1, <1>2, <1>3, <2>1 DEF KeysInv
<1>6. CASE q = 0
  <2>1. h = r
    BY <1>1, <1>3, <1>6
  <2> QED
    BY <1>1, <1>2, <1>3, <2>1 DEF KeysInv
<1>7. CASE q <= -1
  <2>1. q * n <= (-1) * n
    BY <1>1, <1>3, <1>7
  <2> QED
    BY <1>1, <1>3, <2>1
<1> QED
  BY <1>3, <1>4, <1>5, <1>6, <1>7

(* What waits, in terms of the array. *)
Waits ==
  /\ waiting \in [1..(queue_head - queue_tail) -> Entries] /\ waiting \in Seq(Entries)
  /\ queue_head - queue_tail \in Nat /\ Len(waiting) = queue_head - queue_tail
  /\ \A i \in 1..(queue_head - queue_tail) : waiting[i] = queue[queue_tail + i - 1]

LEMMA WaitingIs == KeysInv => Waits
<1> SUFFICES ASSUME KeysInv PROVE Waits
  OBVIOUS
<1> DEFINE n == queue_head - queue_tail
<1>1. n \in Nat
  BY DEF KeysInv
<1>2. \A i \in 1..n : queue[queue_tail + i - 1] \in Entries
  <2> SUFFICES ASSUME NEW i \in 1..n PROVE queue[queue_tail + i - 1] \in Entries
    OBVIOUS
  <2>1. queue_tail + i - 1 \in 0..(QUEUE_LEN - 1)
    BY QueueAssumption DEF KeysInv
  <2> QED
    BY <2>1 DEF KeysInv
<1>3. waiting = [i \in 1..n |-> queue[queue_tail + i - 1]]
  BY DEF waiting
<1> HIDE DEF n
<1>4. waiting \in [1..n -> Entries] /\ \A i \in 1..n : waiting[i] = queue[queue_tail + i - 1]
  BY <1>2, <1>3
<1>5. waiting \in Seq(Entries) /\ Len(waiting) = n
  BY <1>1, <1>4
<1> QED
  BY <1>1, <1>4, <1>5 DEF n, Waits

LEMMA WaitingIsNext == (KeysInv => Waits)'
BY WaitingIs, PTL

LEMMA AppendIs ==
  ASSUME NEW S, NEW n \in Nat, NEW s \in [1..n -> S], NEW t \in [1..(n + 1) -> S],
         \A i \in 1..n : t[i] = s[i]
  PROVE  t = Append(s, t[n + 1]) /\ Len(s) = n
<1>1. s \in Seq(S) /\ Len(s) = n
  OBVIOUS
<1>2. t \in Seq(S) /\ Len(t) = n + 1
  OBVIOUS
<1> QED
  BY <1>1, <1>2

LEMMA TailIs ==
  ASSUME NEW S, NEW n \in Nat, NEW s \in [1..(n + 1) -> S], NEW t \in [1..n -> S],
         \A i \in 1..n : t[i] = s[i + 1]
  PROVE  t = Tail(s) /\ Head(s) = s[1] /\ s # <<>>
<1>1. s \in Seq(S) /\ Len(s) = n + 1
  OBVIOUS
<1>2. t \in Seq(S) /\ Len(t) = n
  OBVIOUS
<1> QED
  BY <1>1, <1>2

LEMMA InitKbdInv == KbdInit => KbdInv /\ KQ!Init
<1> SUFFICES ASSUME KbdInit PROVE KbdInv /\ KQ!Init
  OBVIOUS
<1>1. NoScanCode \in Entries
  BY DEF NoScanCode, Entries
<1>2. KeysInv
  BY <1>1, QueueAssumption DEF KbdInit, KeysInv
<1>3. WireInv
  BY DEF KbdInit, WireInv
<1>4. waiting = <<>>
  BY DEF KbdInit, waiting
<1> QED
  BY <1>2, <1>3, <1>4 DEF KbdInv, KbdInit, KQ!Init, KQ!NoScanCode, NoScanCode

(* A key is queued, or lost when as many wait as may. *)
LEMMA EnqueueStep ==
  ASSUME KeysInv, NEW code \in KQ!Codes, InArray', Enqueue(code), last' = code, UNCHANGED <<queue_tail, pc, slot, polled>>
  PROVE  KeysInv' /\ KQ!Key(code)
<1> DEFINE e == [scan_code |-> code, modifiers |-> modifiers']
<1>1. modifiers' = (IF code.release THEN modifiers \ ModifiersOf(code.key)
                                    ELSE modifiers \union ModifiersOf(code.key))
  BY DEF Enqueue
<1>2. modifiers' \in SUBSET {"shift", "ctrl"}
  <2>1. ModifiersOf(code.key) \in SUBSET {"shift", "ctrl"}
    BY DEF ModifiersOf
  <2> QED
    BY <1>1, <2>1 DEF KeysInv
<1>3. e \in Entries
  BY <1>2 DEF Entries
<1> HIDE DEF e
<1>4. /\ queue \in [0..(QUEUE_LEN - 1) -> Entries] /\ QUEUE_LEN \in Nat \ {0}
      /\ queue_head \in Nat /\ queue_tail \in Nat /\ queue_head <= QUEUE_LEN
  BY QueueAssumption DEF KeysInv
<1>5. Waits /\ Len(waiting) = queue_head - queue_tail
  BY WaitingIs DEF Waits
<1>6. CASE QueueFull
  <2>1. queue' = queue /\ queue_head' = queue_head
    BY <1>6 DEF Enqueue
  <2>2. KeysInv'
    BY <1>2, <2>1 DEF KeysInv
  <2>3. waiting' = waiting
    BY <2>1 DEF waiting
  <2>4. ~(Len(waiting) < QUEUE_LEN - 1)
    BY <1>4, <1>5, <1>6, FullIs
  <2> QED
    BY <1>1, <2>2, <2>3, <2>4 DEF KQ!Key
<1>7. CASE ~QueueFull
  <2>1. queue' = [queue EXCEPT ![queue_head] = e] /\ queue_head' = queue_head + 1
    BY <1>7 DEF Enqueue, Store, e
  <2>0. queue_head \in 0..(QUEUE_LEN - 1)
    BY <1>4, <2>1 DEF InArray
  <2>2. queue_head - queue_tail < QUEUE_LEN - 1
    BY <1>4, <1>7, FullIs DEF KeysInv
  <2>3. KeysInv'
    <3>1. queue' \in [0..(QUEUE_LEN - 1) -> Entries]
      BY <1>3, <1>4, <2>1
    <3>2. queue_tail < queue_head => queue'[queue_tail] = queue[queue_tail]
      BY <1>4, <2>0, <2>1
    <3> QED
      BY <1>2, <1>4, <2>0, <2>1, <2>2, <3>1, <3>2 DEF KeysInv
  <2>4. Waits'
    BY <2>3, WaitingIsNext
  <2> DEFINE n == queue_head - queue_tail
  <2>5. /\ n \in Nat /\ waiting \in [1..n -> Entries] /\ waiting' \in [1..(n + 1) -> Entries]
        /\ \A i \in 1..n : waiting'[i] = waiting[i]
        /\ waiting'[n + 1] = e
    <3>1. n \in Nat /\ queue_head' - queue_tail' = n + 1
      BY <1>4, <1>5, <2>1 DEF Waits
    <3>2. waiting \in [1..n -> Entries] /\ waiting' \in [1..(n + 1) -> Entries]
      BY <1>5, <2>4, <3>1 DEF Waits
    <3>3. \A i \in 1..(n + 1) : waiting'[i] = queue'[queue_tail + i - 1]
      BY <2>4, <3>1 DEF Waits
    <3>4. ASSUME NEW i \in 1..n PROVE waiting'[i] = waiting[i]
      <4>1. /\ queue_tail + i - 1 \in 0..(QUEUE_LEN - 1) /\ queue_tail + i - 1 # queue_head
            /\ i \in 1..(n + 1)
        BY <1>4, <2>0, <3>1
      <4>2. queue'[queue_tail + i - 1] = queue[queue_tail + i - 1]
        BY <1>4, <2>1, <4>1
      <4> QED
        BY <1>5, <3>3, <4>1, <4>2 DEF Waits
    <3>5. queue_tail + (n + 1) - 1 = queue_head /\ n + 1 \in 1..(n + 1)
      BY <1>4, <3>1
    <3>6. waiting'[n + 1] = e
      BY <1>4, <2>0, <2>1, <3>3, <3>5
    <3> QED
      BY <3>1, <3>2, <3>4, <3>6
  <2> HIDE DEF n
  <2>6. waiting' = Append(waiting, e)
    BY <2>5, AppendIs
  <2>7. Len(waiting) < QUEUE_LEN - 1
    BY <1>5, <2>2
  <2> QED
    BY <1>1, <2>3, <2>6, <2>7 DEF KQ!Key, e
<1> QED
  BY <1>6, <1>7

(* A poll takes the first of what waits, if there is any.                  *)
LEMMA PollStep ==
  ASSUME KeysInv, Poll
  PROVE  /\ KeysInv' /\ (KQ!Poll \/ UNCHANGED KQ!vars)
         /\ UNCHANGED <<key, wire, scan_state, modifiers, queue, queue_head, last>>
<1> USE DEF KQ!vars
<1>1. CASE PollTest
  <2>1. /\ pc = "idle" /\ UNCHANGED <<key, wire, scan_state, modifiers, queue, queue_head,
                                       queue_tail, slot, last>>
        /\ IF queue_head # queue_tail THEN pc' = "read" /\ polled' = polled
           ELSE polled' = NoScanCode /\ pc' = pc
    BY <1>1 DEF PollTest
  <2>2. KeysInv'
    BY <2>1 DEF KeysInv
  <2>3. waiting' = waiting
    BY <2>1 DEF waiting
  <2>4. CASE queue_head # queue_tail
    BY <2>1, <2>2, <2>3, <2>4
  <2>5. CASE queue_head = queue_tail
    <3>1. waiting = <<>>
      BY <2>5, WaitingIs DEF Waits, KeysInv
    <3>2. KQ!Poll
      BY <2>1, <2>3, <2>5, <3>1 DEF KQ!Poll, KQ!NoScanCode, NoScanCode
    <3> QED
      BY <2>1, <2>2, <3>2
  <2> QED
    BY <2>4, <2>5
<1>2. CASE PollRead
  <2>1. /\ pc = "read" /\ pc' = "advance" /\ slot' = queue[queue_tail]
        /\ UNCHANGED <<key, wire, scan_state, modifiers, queue, queue_head,
                       queue_tail, polled, last>>
    BY <1>2 DEF PollRead
  <2>2. KeysInv'
    BY <2>1 DEF KeysInv
  <2>3. waiting' = waiting
    BY <2>1 DEF waiting
  <2> QED
    BY <2>1, <2>2, <2>3
<1>3. CASE PollReturn
  <2>1. /\ pc = "advance" /\ polled' = slot /\ queue_tail' = queue_tail + 1 /\ pc' = "idle"
        /\ UNCHANGED <<key, wire, scan_state, modifiers, queue, queue_head, last>>
    BY <1>3 DEF PollReturn
  <2>2. slot = queue[queue_tail] /\ queue_tail < queue_head
    BY <2>1 DEF KeysInv
  <2>3. KeysInv'
    BY <2>1, <2>2, QueueAssumption DEF KeysInv
  <2>4. Waits /\ Waits'
    BY <2>3, WaitingIs, WaitingIsNext
  <2> DEFINE n == queue_head' - queue_tail'
  <2>5. n \in Nat /\ queue_head - queue_tail = n + 1
    BY <2>1, <2>4 DEF Waits, KeysInv
  <2>6. waiting \in [1..(n + 1) -> Entries] /\ waiting' \in [1..n -> Entries]
    BY <2>4, <2>5 DEF Waits
  <2>7. /\ \A i \in 1..(n + 1) : waiting[i] = queue[queue_tail + i - 1]
        /\ \A i \in 1..n : waiting'[i] = queue[queue_tail' + i - 1]
    BY <2>1, <2>4, <2>5 DEF Waits
  <2> HIDE DEF n
  <2>8. ASSUME NEW i \in 1..n PROVE waiting'[i] = waiting[i + 1]
    <3>1. i + 1 \in 1..(n + 1) /\ queue_tail' + i - 1 = queue_tail + (i + 1) - 1
      BY <2>1, <2>5 DEF KeysInv
    <3> QED
      BY <2>7, <3>1
  <2>9. waiting' = Tail(waiting) /\ Head(waiting) = waiting[1] /\ waiting # <<>>
    BY <2>5, <2>6, <2>8, TailIs
  <2>10. waiting[1] = queue[queue_tail]
    <3>1. 1 \in 1..(n + 1) /\ queue_tail + 1 - 1 = queue_tail
      BY <2>5 DEF KeysInv
    <3> QED
      BY <2>7, <3>1
  <2>11. KQ!Poll
    BY <2>1, <2>2, <2>9, <2>10 DEF KQ!Poll
  <2> QED
    BY <2>1, <2>3, <2>11
<1> QED
  BY <1>1, <1>2, <1>3 DEF Poll

LEMMA KbdStep ==
  ASSUME KbdInv, InArray', [KbdNext]_kbd_vars
  PROVE  KbdInv' /\ [KQ!Next]_(KQ!vars)
<1>1. CASE UNCHANGED kbd_vars
  <2>1. waiting' = waiting
    BY <1>1 DEF waiting, kbd_vars
  <2>2. KeysInv'
    BY <1>1 DEF kbd_vars, KbdInv, KeysInv
  <2>3. WireInv'
    BY <1>1 DEF kbd_vars, KbdInv, WireInv, Left
  <2> QED
    BY <1>1, <2>1, <2>2, <2>3 DEF kbd_vars, KbdInv, KQ!vars
<1>2. ASSUME NEW k \in TypedKeys, NEW release \in BOOLEAN, Type([key |-> k, release |-> release])
      PROVE  KbdInv' /\ [KQ!Next]_(KQ!vars)
  <2> DEFINE code == [key |-> k, release |-> release]
  <2>1. code \in [key : TypedKeys, release : BOOLEAN]
    OBVIOUS
  <2>2. Type(code)
    BY <1>2
  <2> HIDE DEF code
  <2>3. WireInv' /\ UNCHANGED <<modifiers, queue, queue_head, queue_tail, pc, slot, polled, last>>
    BY <2>1, <2>2, TypeStep
  <2>4. KeysInv'
    BY <2>3 DEF KbdInv, KeysInv
  <2>5. waiting' = waiting
    BY <2>3 DEF waiting
  <2> QED
    BY <2>3, <2>4, <2>5 DEF KbdInv, KQ!vars
<1>3. CASE Irq
  <2>1. UNCHANGED <<queue_tail, pc, slot, polled>>
    BY <1>3, IrqStep
  <2>2. CASE WireInv' /\ UNCHANGED <<modifiers, queue, queue_head, last>>
    <3>1. KeysInv'
      BY <2>1, <2>2 DEF KbdInv, KeysInv
    <3>2. waiting' = waiting
      BY <2>1, <2>2 DEF waiting
    <3> QED
      BY <2>1, <2>2, <3>1, <3>2 DEF KbdInv, KQ!vars
  <2>3. CASE /\ wire' = <<>> /\ scan_state' = "INIT"
             /\ key \in KQ!Codes /\ Enqueue(key) /\ last' = key
    <3>1. KeysInv' /\ KQ!Key(key)
      BY <2>1, <2>3, EnqueueStep DEF KbdInv
    <3>2. WireInv'
      BY <2>3 DEF WireInv
    <3>3. KQ!Next
      BY <2>3, <3>1 DEF KQ!Next
    <3> QED
      BY <3>1, <3>2, <3>3 DEF KbdInv
  <2> QED
    BY <1>3, <2>2, <2>3, IrqStep
<1>4. CASE Poll
  <2>1. /\ KeysInv' /\ (KQ!Poll \/ UNCHANGED KQ!vars)
        /\ UNCHANGED <<key, wire, scan_state, modifiers, queue, queue_head, last>>
    BY <1>4, PollStep DEF KbdInv
  <2>2. WireInv'
    BY <2>1 DEF KbdInv, WireInv, Left
  <2> QED
    BY <2>1, <2>2 DEF KbdInv, KQ!Next
<1> QED
  BY <1>1, <1>2, <1>3, <1>4 DEF KbdNext

(* There is no way back into the array.                                    *)
LEMMA Within == ASSUME [KbdNext]_kbd_vars, InArray' PROVE InArray
<1>1. ASSUME NEW code, Type(code) PROVE InArray
  BY <1>1 DEF Type
<1>2. UNCHANGED kbd_vars => InArray
  BY DEF kbd_vars, InArray
<1> QED
  BY <1>1, <1>2 DEF KbdNext, Irq, Poll

(* Until a key is stored beyond the array, the queue of any length is the  *)
(* one promised, whatever the interrupts do between the steps of a poll:   *)
(* kbd_poll_key gives the keys that kbd_process_scancode_byte has decoded  *)
(* in order, each with its modifiers, and those alone are lost that find   *)
(* it full.                                                                *)
THEOREM ImplementsKeyQueueTheorem == KbdSpec => ImplementsKeyQueue
<1>1. KbdInit => KbdIInv /\ KQ!Init
  BY InitKbdInv DEF KbdIInv
<1>2. KbdIInv /\ [KbdNext]_kbd_vars => KbdIInv'
  BY Within, KbdStep DEF KbdIInv
<1>3. KbdIInv /\ [KbdNext]_kbd_vars => [queue_head' <= QUEUE_LEN => [KQ!Next]_(KQ!vars)]_kbd_vars
  <2> SUFFICES ASSUME KbdIInv, [KbdNext]_kbd_vars, InArray' PROVE [KQ!Next]_(KQ!vars)
    BY DEF InArray
  <2>1. InArray
    BY Within
  <2> QED
    BY <2>1, KbdStep DEF KbdIInv
<1> QED
  BY <1>1, <1>2, <1>3, PTL DEF KbdSpec, ImplementsKeyQueue
=============================================================================
