------------------------------- MODULE Console -------------------------------
(***************************************************************************)
(* The console of console.rs: the text screen with its cursor, the serial  *)
(* line that carries a copy of the text, and the buffer of pending bytes.  *)
(* A cell stands for a character with its attribute.                       *)
(***************************************************************************)
EXTENDS Integers, SequenceEnds

CONSTANTS
  VGA_WIDTH, VGA_HEIGHT,
  BufLen,           \* 4096 in the code
  Chars,            \* printable characters
  Numbers,          \* arguments of write_dec, write_octal and write_binary
  MaxBytes,         \* bound on the bytes written
  MaxMoves          \* bound on the steps that erase, clear or move the cursor

ASSUME ConsoleAssumption ==
  /\ VGA_WIDTH \in Nat /\ VGA_WIDTH > 1 /\ VGA_HEIGHT \in Nat /\ VGA_HEIGHT > 1
  /\ BufLen \in Nat /\ BufLen > 0 /\ Numbers \subseteq Nat

VARIABLES
  con,              \* the screen and the cursor
  buffer,           \* the first buf_pos bytes of the buffer
  uart,             \* the bytes sent on the serial line
  handed,           \* history: the bytes handed to buffer_write, while all are
  moves,            \* number of steps that erase, clear or move the cursor
  direct,           \* history: writes around the buffer
  last              \* history: the last step, and the console before it if it was a byte

consoleVars == <<con, buffer, uart, handed, moves, direct, last>>

Rows == 0 .. VGA_HEIGHT - 1
Columns == 0 .. VGA_WIDTH - 1
BlankRow == [x \in Columns |-> "nul"]     \* cleared by scroll

ConsoleAt(screen, x, y) == [screen |-> screen, x |-> x, y |-> y]

\* Faulty variant: rows are moved in the order that overwrites the next one.
scroll_down(c) ==
  ConsoleAt([y \in Rows |-> IF y < VGA_HEIGHT - 1 THEN c.screen[VGA_HEIGHT - 1] ELSE BlankRow],
            c.x, VGA_HEIGHT - 1)

scroll(c) ==
  ConsoleAt([y \in Rows |-> IF y < VGA_HEIGHT - 1 THEN c.screen[y + 1] ELSE BlankRow],
            c.x, VGA_HEIGHT - 1)

newline(c) ==
  LET d == ConsoleAt(c.screen, 0, c.y + 1)
  IN IF d.y >= VGA_HEIGHT THEN scroll(d) ELSE d

put_char(c, char) ==
  LET d == ConsoleAt([c.screen EXCEPT ![c.y][c.x] = char], c.x + 1, c.y)
  IN IF d.x >= VGA_WIDTH THEN newline(d) ELSE d

\* Like put_char, with an attribute of its own.
write_char_with_attr(c, char) ==
  LET d == ConsoleAt([c.screen EXCEPT ![c.y][c.x] = char], c.x + 1, c.y)
  IN IF d.x >= VGA_WIDTH THEN newline(d) ELSE d

write_byte(c, byte) == IF byte = "nl" THEN newline(c) ELSE put_char(c, byte)

\* Faulty variant: the cursor steps back over a line end to its first column.
backspace_to_first(c) ==
  IF c.x > 0 THEN ConsoleAt([c.screen EXCEPT ![c.y][c.x - 1] = " "], c.x - 1, c.y)
  ELSE IF c.y > 0 THEN ConsoleAt([c.screen EXCEPT ![c.y - 1][0] = " "], 0, c.y - 1)
  ELSE c

backspace(c) ==
  IF c.x > 0 THEN ConsoleAt([c.screen EXCEPT ![c.y][c.x - 1] = " "], c.x - 1, c.y)
  ELSE IF c.y > 0
       THEN ConsoleAt([c.screen EXCEPT ![c.y - 1][VGA_WIDTH - 1] = " "], VGA_WIDTH - 1, c.y - 1)
       ELSE c

\* The digits that write_dec, write_octal and write_binary send.
Digit(d) == <<"0", "1", "2", "3", "4", "5", "6", "7", "8", "9">>[d + 1]
\* Faulty variant: the digits are sent in the order in which they are found.
DigitsReversed(n, base) ==
  LET buf[k \in 0 .. n] == IF k = 0 THEN <<>> ELSE <<Digit(k % base)>> \o buf[k \div base]
  IN IF n = 0 THEN <<"0">> ELSE buf[n]

Digits(n, base) ==
  LET buf[k \in 0 .. n] == IF k = 0 THEN <<>> ELSE Append(buf[k \div base], Digit(k % base))
  IN IF n = 0 THEN <<"0">> ELSE buf[n]

WriteBytes(c, bytes) ==
  LET after[k \in 0 .. Len(bytes)] == IF k = 0 THEN c ELSE write_byte(after[k - 1], bytes[k])
  IN after[Len(bytes)]

-----------------------------------------------------------------------------
ConsoleNew == ConsoleAt([y \in Rows |-> BlankRow], 0, 0)

Room(n) == Len(uart) + Len(buffer) + n <= MaxBytes
Step(op) == last' = [was |-> IF op = "put" THEN con ELSE ConsoleNew, op |-> op, arg |-> <<>>]
Move == moves < MaxMoves /\ moves' = moves + 1

\* One byte of write_str, which sends backspaces to the screen only.
write_str_byte(b) ==
  /\ Room(1) /\ Step("put") /\ direct' = TRUE /\ handed' = <<>>
  /\ con' = write_byte(con, b) /\ uart' = Append(uart, b)
  /\ UNCHANGED <<buffer, moves>>

write_str_backspace ==
  /\ con' = backspace(con) /\ Step("backspace") /\ Move
  /\ UNCHANGED <<buffer, uart, handed, direct>>

write_number(n, base) ==
  /\ Room(Len(Digits(n, base))) /\ direct' = TRUE /\ handed' = <<>>
  /\ con' = WriteBytes(con, Digits(n, base)) /\ uart' = uart \o Digits(n, base)
  /\ last' = [was |-> ConsoleNew, op |-> "number", arg |-> <<n, base, Len(uart)>>]
  /\ UNCHANGED <<buffer, moves>>

put_with_attr(char) ==
  /\ con' = write_char_with_attr(con, char) /\ Step("attr") /\ Move
  /\ UNCHANGED <<buffer, uart, handed, direct>>

flush_buffer ==
  /\ buffer # <<>> /\ Step("flush")
  /\ con' = WriteBytes(con, buffer) /\ uart' = uart \o buffer /\ buffer' = <<>>
  /\ UNCHANGED <<handed, moves, direct>>

\* Faulty variant: the byte that finds the buffer full is flushed away.
buffer_write_lossy(b) ==
  /\ Room(1) /\ Step("buffer") /\ handed' = IF direct THEN handed ELSE Append(handed, b)
  /\ IF Len(buffer) < BufLen
     THEN buffer' = Append(buffer, b) /\ UNCHANGED <<con, uart>>
     ELSE con' = WriteBytes(con, buffer) /\ uart' = uart \o buffer /\ buffer' = <<>>
  /\ UNCHANGED <<moves, direct>>

buffer_write(b) ==
  /\ Room(1) /\ Step("buffer") /\ handed' = IF direct THEN handed ELSE Append(handed, b)
  /\ IF Len(buffer) < BufLen
     THEN buffer' = Append(buffer, b) /\ UNCHANGED <<con, uart>>
     ELSE con' = WriteBytes(con, buffer) /\ uart' = uart \o buffer /\ buffer' = <<b>>
  /\ UNCHANGED <<moves, direct>>

clear_screen ==
  /\ con' = ConsoleAt([y \in Rows |-> [x \in Columns |-> " "]], 0, 0)
  /\ Step("clear") /\ Move
  /\ UNCHANGED <<buffer, uart, handed, direct>>

\* A position off the screen is ignored.
set_cursor(x, y) ==
  /\ x < VGA_WIDTH /\ y < VGA_HEIGHT
  /\ con' = ConsoleAt(con.screen, x, y) /\ Step("cursor") /\ Move
  /\ UNCHANGED <<buffer, uart, handed, direct>>

ConsoleInit ==
  /\ con = ConsoleNew /\ buffer = <<>> /\ uart = <<>> /\ handed = <<>>
  /\ moves = 0 /\ direct = FALSE /\ last = [was |-> ConsoleNew, op |-> "new", arg |-> <<>>]

ConsoleNext ==
  \/ \E b \in Chars \cup {"nl"} : write_str_byte(b) \/ buffer_write(b)
  \/ \E c \in Chars : put_with_attr(c)
  \/ \E n \in Numbers, base \in {2, 8, 10} : write_number(n, base)
  \/ \E x \in 0 .. VGA_WIDTH, y \in 0 .. VGA_HEIGHT : set_cursor(x, y)
  \/ write_str_backspace \/ flush_buffer \/ clear_screen

ConsoleSpec == ConsoleInit /\ [][ConsoleNext]_consoleVars

-----------------------------------------------------------------------------
\* Where the k-th byte of a text belongs: lines are broken at the width of the
\* screen, and a line that fills its last row exactly leaves an empty one.
Place(text) ==
  LET starts == {0} \cup {k \in 1 .. Len(text) : text[k] = "nl"}
      begin(k) == CHOOSE s \in starts : s < k /\ \A r \in starts : r < k => r <= s
      \* the row where the line that byte k belongs to begins
      row[k \in 1 .. Len(text) + 1] ==
        IF begin(k) = 0 THEN 0
        ELSE LET n == begin(k) IN row[n] + (n - 1 - begin(n)) \div VGA_WIDTH + 1
  IN [k \in 1 .. Len(text) + 1 |->
       [row |-> row[k] + (k - 1 - begin(k)) \div VGA_WIDTH, col |-> (k - 1 - begin(k)) % VGA_WIDTH]]

\* As long as no one moves the cursor, erases or clears, a screen that was
\* blank at the start shows the last rows of the text that the serial line has
\* carried, laid out by the definition above, and nothing else; and the cursor
\* stands at its end.  (Nothing in console.rs blanks the screen at the start.)
ScreenShowsText ==
  moves = 0 =>
    LET place == Place(uart)
        end == place[Len(uart) + 1]
        top == IF end.row < VGA_HEIGHT THEN 0 ELSE end.row - VGA_HEIGHT + 1
        At(y, x) == {k \in 1 .. Len(uart) : place[k] = [row |-> top + y, col |-> x] /\ uart[k] # "nl"}
    IN /\ con.x = end.col /\ con.y = end.row - top
       /\ \A y \in Rows, x \in Columns :
            con.screen[y][x] = IF At(y, x) = {} THEN "nul" ELSE uart[CHOOSE k \in At(y, x) : TRUE]

\* A backspace right after a character erases that character and no other: at
\* a line end too, and when the character has scrolled the screen.
BackspaceErases ==
  [][ last.op = "put" /\ uart # <<>> /\ Last(uart) # "nl" /\ last'.op = "backspace" =>
        LET was == last.was
            up == IF was.x = VGA_WIDTH - 1 /\ was.y = VGA_HEIGHT - 1 THEN 1 ELSE 0
        IN /\ con'.x = was.x /\ con'.y = was.y - up
           /\ \A y \in Rows, x \in Columns :
                y + up \in Rows => con'.screen[y][x] = IF y + up = was.y /\ x = was.x THEN " "
                                                       ELSE was.screen[y + up][x] ]_consoleVars

\* The digits that write_dec, write_octal or write_binary has just sent denote
\* its argument in its base, without leading zeros.
Worth(char) == CHOOSE d \in 0 .. 9 : Digit(d) = char
NumbersReadBack ==
  last.op = "number" =>
    LET from == last.arg[3]
        value[k \in from .. Len(uart)] ==
          IF k = from THEN 0 ELSE value[k - 1] * last.arg[2] + Worth(uart[k])
    IN /\ value[Len(uart)] = last.arg[1]
       /\ Len(uart) > from + 1 => uart[from + 1] # "0"

\* While everything is written through the buffer, the serial line has carried
\* what was handed over, in order, up to what is still in the buffer: nothing
\* is lost or doubled when the buffer is full.
BufferLosesNothing == ~ direct => uart \o buffer = handed
=============================================================================
