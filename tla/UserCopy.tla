------------------------------- MODULE UserCopy -------------------------------
(***************************************************************************)
(* Copies between the kernel and a user process: the checks of addresses   *)
(* and the loops behind them, in syscall/dispatch.rs, syscall/core.rs (read*)
(* and write) and memory/virtual.rs.                                       *)
(*                                                                         *)
(* A copy takes a byte at a time, and between two bytes another thread of  *)
(* the process may change its memory.  Addresses are W bits wide and wrap; *)
(* user addresses are Base .. End - 1, in the lower half as in the code. A *)
(* byte is 0 or 1.                                                         *)
(***************************************************************************)
EXTENDS Integers, Functions, SequenceEnds

CONSTANTS
  W, Base, End,
  PageSize,         \* 4096 in the code
  MaxString,        \* 4096 in the code
  WordSize,         \* 8 in the code
  MaxTransfer,      \* i32::MAX in the code
  Kinds,            \* the operations to look at
  Pointers, Lengths \* their arguments

Addrs == 0 .. 2^W - 1
UserAddrs == Base .. End - 1

ASSUME UserCopyAssumption ==
  /\ 2^(W - 1) \in Nat \ {0} /\ 2^W = 2 * 2^(W - 1)
  /\ Base \in Nat \ {0} /\ End \in Nat /\ Base < End /\ End <= 2^(W - 1)
  /\ PageSize \in Nat \ {0} /\ MaxString \in Nat /\ MaxTransfer \in Nat
  /\ WordSize \in Addrs
  /\ Pointers \subseteq Addrs /\ Lengths \subseteq Addrs

VARIABLES
  mem,              \* the bytes of the process
  op,               \* the operation under way, or the last one
  touched           \* history: addresses the operation has read or written

copyVars == <<mem, op, touched>>

wrapping_add(a, n) == (a + n) % 2^W

\* External: memory::virtual::is_user_addr, which the source does not define.
is_user_addr(a) == a \in UserAddrs

\* Faulty variant: a range may wrap around the address space.
WrappingUserPtr(ptr, size) ==
  ptr # 0 /\ (size = 0 \/ (is_user_addr(ptr) /\ is_user_addr(wrapping_add(ptr, size))))

validate_user_ptr(ptr, size) ==
  /\ ptr # 0
  /\ \/ size = 0
     \/ /\ wrapping_add(ptr, size) >= ptr
        /\ is_user_addr(ptr) /\ is_user_addr(wrapping_add(ptr, size))

\* Of core.rs: a range may reach up to the end.
validate_user_pointer(ptr, len) ==
  /\ ptr # 0 /\ ptr >= Base /\ ptr < End
  /\ len > 0 => ptr + len < 2^W /\ ptr + len <= End

\* Of virtual.rs.  The lengths are those of slices, below half the space.
vmm_validate_user_range(start, len) ==
  wrapping_add(start, len) < End /\ start < End /\ start >= Base
vmm_copy_to_user(dest, len) == vmm_validate_user_range(dest, len)
vmm_copy_from_user(src, len) == vmm_validate_user_range(src, len)

Down(a) == a - (a % PageSize)
\* copy_page_aligned_from_user and _to_user look at whole pages first.
page_aligned_ok(ptr, size) ==
  /\ is_user_addr(Down(ptr)) /\ is_user_addr(Down(wrapping_add(ptr, size + PageSize - 1)))
  /\ validate_user_ptr(ptr, size)

\* Both ends are looked at before copy_from_user and copy_to_user begin.
copy_ok(ptr, len) == is_user_addr(ptr) /\ is_user_addr(wrapping_add(ptr, len))

copy_from_user_array(ptr, size) == size = 0 \/ (validate_user_ptr(ptr, size) /\ copy_ok(ptr, size))
copy_to_user_array(ptr, size) == size = 0 \/ (validate_user_ptr(ptr, size) /\ copy_ok(ptr, size))
copy_iovec_from_user(ptr, size) == size = 0 \/ (validate_user_ptr(ptr, size) /\ copy_ok(ptr, size))
copy_iovec_to_user(ptr, size) == size = 0 \/ (validate_user_ptr(ptr, size) /\ copy_ok(ptr, size))
\* An empty string still needs a pointer that is not null.
copy_string_to_user(ptr, size) ==
  validate_user_ptr(ptr, size) /\ (size = 0 \/ copy_ok(ptr, size))
get_user_u64(ptr) == validate_user_ptr(ptr, WordSize) /\ copy_ok(ptr, WordSize)
put_user_u64(ptr) == validate_user_ptr(ptr, WordSize) /\ copy_ok(ptr, WordSize)
copy_page_aligned_from_user(ptr, size) == size = 0 \/ (page_aligned_ok(ptr, size) /\ copy_ok(ptr, size))
copy_page_aligned_to_user(ptr, size) == size = 0 \/ (page_aligned_ok(ptr, size) /\ copy_ok(ptr, size))

\* Only standard input can be read; output and errors are written alike.
sys_read(fd, ptr, count) == ptr # 0 /\ count # 0 /\ validate_user_pointer(ptr, count) /\ fd = 0
sys_write(fd, ptr, count) == ptr # 0 /\ count # 0 /\ validate_user_pointer(ptr, count) /\ fd \in {1, 2}
\* handle_core_syscall looks at the buffer before sys_read and sys_write do.
handle_core_syscall(ptr, count) == validate_user_pointer(ptr, count)

-----------------------------------------------------------------------------
\* The check that each operation makes before it begins.
Accepts(kind, ptr, len) ==
  CASE kind \in {"from", "to"} -> copy_ok(ptr, len)
    [] kind = "array_from" -> copy_from_user_array(ptr, len)
    [] kind = "array_to" -> copy_to_user_array(ptr, len)
    [] kind = "iovec_from" -> copy_iovec_from_user(ptr, len)
    [] kind = "iovec_to" -> copy_iovec_to_user(ptr, len)
    [] kind = "string_to" -> copy_string_to_user(ptr, len)
    [] kind = "u64_from" -> get_user_u64(ptr)
    [] kind = "u64_to" -> put_user_u64(ptr)
    [] kind = "page_from" -> copy_page_aligned_from_user(ptr, len)
    [] kind = "page_to" -> copy_page_aligned_to_user(ptr, len)
    [] kind = "vmm_from" -> vmm_copy_from_user(ptr, len)
    [] kind = "vmm_to" -> vmm_copy_to_user(ptr, len)
    [] kind = "vmm_string" -> vmm_validate_user_range(ptr, 1)
    [] kind = "read" -> handle_core_syscall(ptr, len) /\ sys_read(0, ptr, len)
    [] kind = "read_other" -> handle_core_syscall(ptr, len) /\ sys_read(3, ptr, len)
    [] kind = "write" -> handle_core_syscall(ptr, len) /\ sys_write(1, ptr, len)
    [] kind = "write_other" -> handle_core_syscall(ptr, len) /\ sys_write(3, ptr, len)
    [] OTHER -> TRUE

\* Lengths that a caller can pass: a slice is shorter than half the space.
IsLength(kind, len) ==
  /\ kind \in {"vmm_from", "vmm_to", "vmm_string"} => len < 2^(W - 1)
  /\ kind = "vmm_string" => len > 0

\* How many bytes an accepted operation is about.
Length(kind, len) ==
  IF kind \in {"u64_from", "u64_to"} THEN WordSize
  ELSE IF kind \in {"read", "write"} /\ len > MaxTransfer THEN MaxTransfer ELSE len

Running == op.pc \in {"copy", "scan"}
Now(pc) == op.pc = pc
Here == wrapping_add(op.ptr, op.i)
Scanning == {"string", "length", "limit", "vmm_string"}
Writing == {"to", "array_to", "iovec_to", "string_to", "u64_to", "page_to", "vmm_to", "read"}

Begin(kind, ptr, len) ==
  /\ ~ Running /\ IsLength(kind, len)
  /\ op' = [kind |-> kind, ptr |-> ptr, len |-> Length(kind, len), i |-> 0, buf |-> <<>>,
            pc |-> IF ~ Accepts(kind, ptr, len) THEN "err"
                   ELSE IF kind \in Scanning THEN "scan" ELSE "copy"]
  /\ touched' = {}
  /\ UNCHANGED mem

\* Faulty variant: the addresses in between are not looked at.
ChecksNothing(kind, a) == TRUE

\* copy_from_user and copy_to_user look at every address again; the copies of
\* virtual.rs, read and write do not.
ByteChecked(kind, a) ==
  kind \in {"vmm_from", "vmm_to", "read", "write"} \/ is_user_addr(a)

End_(pc) == op' = [op EXCEPT !.pc = pc] /\ UNCHANGED <<mem, touched>>
Touch(a) == touched' = touched \cup {a}

\* A loop that copies a known number of bytes.  read stops early when the
\* console has no byte.
CopyByte ==
  /\ Now("copy") /\ op.i < op.len
  /\ IF ~ ByteChecked(op.kind, Here) THEN End_("err")
     ELSE /\ Touch(Here)
          /\ op' = [op EXCEPT !.i = @ + 1]
          /\ mem' = [a \in UserAddrs |-> IF op.kind \in Writing /\ a = Here THEN 1 ELSE mem[a]]

CopyDone ==
  /\ Now("copy")
  /\ op.i = op.len \/ op.kind = "read"
  /\ End_("ok")

-----------------------------------------------------------------------------
\* The loops over strings: how many rounds each makes at most, and its
\* outcome when no zero is found by then.
validate_string_ptr == [rounds |-> MaxString + 1, full |-> "err"]
copy_string_from_user == [rounds |-> IF op.len < MaxString THEN op.len ELSE MaxString, full |-> "ok"]
copy_from_user_with_limit == [rounds |-> op.len, full |-> "err"]
vmm_copy_string_from_user == [rounds |-> op.len - 1, full |-> "ok"]

Loop == CASE op.kind = "length" -> validate_string_ptr
          [] op.kind = "string" -> copy_string_from_user
          [] op.kind = "limit" -> copy_from_user_with_limit
          [] op.kind = "vmm_string" -> vmm_copy_string_from_user

ScanChecked(a) ==
  IF op.kind = "vmm_string" THEN vmm_validate_user_range(a, 1)
  ELSE validate_user_ptr(a, 1) /\ copy_ok(a, 1)

\* A byte as the loop sees it; external for an address outside the process.
Byte(a) == IF is_user_addr(a) THEN mem[a] ELSE 1

\* Faulty variant: the byte that is stored is fetched a second time, when it
\* may have changed.
StoredAnew(a) == {Byte(a), 0}

\* The byte that was compared with zero is the one that is stored.
Stored(a) == {Byte(a)}

\* One round of validate_string_ptr, copy_string_from_user, the first loop of
\* copy_from_user_with_limit, or the copy_string_from_user of virtual.rs.
ScanByte ==
  /\ Now("scan") /\ op.i < Loop.rounds
  /\ IF ~ ScanChecked(Here) THEN End_("err")
     ELSE /\ Touch(Here)
          /\ IF Byte(Here) # 0
             THEN \E b \in Stored(Here) : op' = [op EXCEPT !.i = @ + 1, !.buf = Append(@, b)]
             ELSE op' = CASE op.kind = "limit" -> [op EXCEPT !.pc = IF copy_ok(op.ptr, op.i) THEN "copy" ELSE "err",
                                                               !.len = op.i, !.i = 0, !.buf = <<>>]
                          [] op.kind = "vmm_string" -> [op EXCEPT !.pc = "ok", !.buf = Append(@, 0)]
                          [] OTHER -> [op EXCEPT !.pc = "ok"]
          /\ UNCHANGED mem

\* The rounds are over; virtual.rs still appends the zero.
ScanDone ==
  /\ Now("scan") /\ op.i >= Loop.rounds
  /\ op' = [op EXCEPT !.pc = Loop.full, !.buf = IF op.kind = "vmm_string" THEN Append(@, 0) ELSE @]
  /\ UNCHANGED <<mem, touched>>

\* Another thread of the process stores a byte.
UserStore(a, b) ==
  /\ Running /\ op.kind \in Scanning /\ mem[a] # b
  /\ mem' = [mem EXCEPT ![a] = b]
  /\ UNCHANGED <<op, touched>>

-----------------------------------------------------------------------------
Init ==
  /\ mem = [a \in UserAddrs |-> 0]
  /\ op = [kind |-> "from", ptr |-> 0, len |-> 0, i |-> 0, buf |-> <<>>, pc |-> "err"]
  /\ touched = {}

Next ==
  \/ \E kind \in Kinds, ptr \in Pointers, len \in Lengths : Begin(kind, ptr, len)
  \/ CopyByte \/ CopyDone \/ ScanByte \/ ScanDone
  \/ \E a \in UserAddrs, b \in {0, 1} : UserStore(a, b)

Spec == Init /\ [][Next]_copyVars

-----------------------------------------------------------------------------
\* The operation under way has read and written addresses of the process and
\* no others, whatever pointer and length it was given: ranges that start and
\* end in the process but wrap around the address space included.
OnlyProcessTouched == touched \subseteq UserAddrs

\* A string that copy_string_from_user returns has no zero in it, nor has the
\* one of virtual.rs before its last byte, which is one, although the process
\* changes its memory during the copy; and both fit the buffer.
StringsAreWellFormed ==
  op.pc = "ok" =>
    /\ op.kind = "string" => 0 \notin Range(op.buf) /\ Len(op.buf) <= op.len
    /\ op.kind = "vmm_string" =>
         /\ Len(op.buf) \in 1 .. op.len /\ Last(op.buf) = 0
         /\ 0 \notin Range(Front(op.buf))

\* The operations that look at their whole range before they begin: all but
\* the scans, and copy_from_user and copy_to_user, which look at its ends.
Whole == {"array_from", "array_to", "iovec_from", "iovec_to", "string_to", "u64_from", "u64_to",
          "page_from", "page_to", "vmm_from", "vmm_to", "read", "write",
          "read_other", "write_other"}

\* Such an operation does all or nothing: when it fails it has read and
\* written no byte.  The check in front (of the ends, and that the range does
\* not wrap) rules out that the check of a byte fails in the middle.
AllOrNothing == op.kind \in Whole /\ op.pc = "err" => touched = {}
=============================================================================
