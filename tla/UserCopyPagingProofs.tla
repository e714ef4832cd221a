------------------------ MODULE UserCopyPagingProofs -------------------------
(***************************************************************************)
(* Proofs about the copies of UserCopy, for address spaces of any size,    *)
(* any place of the process in the lower half, any pointers and lengths,   *)
(* and about the page tables of KernelPaging, for tables of any size, any  *)
(* number of levels, any pages, frames and flags.                          *)
(***************************************************************************)
EXTENDS UserCopy, KernelPaging, SequenceTheorems, NaturalsInduction, WellFoundedInduction, TLAPS

(* The copies. *)

Ops == [kind : Kinds \cup {"from"}, ptr : Addrs, len : Nat, i : Nat,
        buf : Seq({0, 1}), pc : {"copy", "scan", "ok", "err"}]

TypeOK ==
  /\ mem \in [UserAddrs -> {0, 1}]
  /\ op \in Ops

Phases ==
  /\ op.pc = "scan" => op.kind \in Scanning
  /\ op.pc = "copy" /\ op.kind \in Scanning => op.kind = "limit"

\* What the check before the loop has to establish.
RangeChecked ==
  op.pc = "copy" /\ op.kind \in Whole =>
    \A k \in 0 .. op.len - 1 : wrapping_add(op.ptr, k) \in UserAddrs

\* The string so far has no zero and leaves room for the one virtual.rs adds.
StringSoFar ==
  /\ op.pc = "scan" => 0 \notin Range(op.buf) /\ Len(op.buf) = op.i
  /\ op.pc = "scan" /\ op.kind = "vmm_string" => op.i <= op.len - 1
  /\ op.pc = "scan" /\ op.kind = "string" => op.i <= op.len

Inv == /\ TypeOK /\ Phases /\ RangeChecked /\ OnlyProcessTouched /\ AllOrNothing
       /\ StringSoFar /\ StringsAreWellFormed

-----------------------------------------------------------------------------
(* Addresses and ranges. *)

LEMMA AddrIsNat ==
  ASSUME NEW a \in Nat, NEW n \in Nat
  PROVE  /\ wrapping_add(a, n) \in Nat
         /\ a + n < 2^W => wrapping_add(a, n) = a + n
<1> USE UserCopyAssumption
<1> DEFINE M == 2^W
<1>1. M \in Nat \ {0}
  OBVIOUS
<1> HIDE DEF M
<1>2. \A x \in Nat : x % M \in Nat /\ (x < M => x % M = x)
  BY <1>1, SMTT(40)
<1> QED
  BY <1>2 DEF wrapping_add, M

\* A range that validate_user_ptr accepts does not wrap around the address
\* space, so that it lies in the process with both its ends.
LEMMA ValidRange ==
  ASSUME NEW ptr \in Addrs, NEW size \in Addrs, validate_user_ptr(ptr, size),
         NEW k \in 0 .. size - 1
  PROVE  wrapping_add(ptr, k) \in UserAddrs
<1> USE UserCopyAssumption
<1> DEFINE M == 2^W
<1>1. ptr \in Nat /\ size \in Nat /\ M \in Nat \ {0} /\ ptr < M /\ size < M /\ k \in Nat /\ k < size
  BY DEF Addrs
<1>2. wrapping_add(ptr, size) >= ptr /\ is_user_addr(ptr) /\ is_user_addr(wrapping_add(ptr, size))
  <2>1. size # 0
    BY <1>1
  <2> QED
    BY <2>1, Zenon DEF validate_user_ptr
<1>3. wrapping_add(ptr, size) = (ptr + size) % M
  BY Zenon DEF wrapping_add
<1> HIDE DEF M
<1>4. ptr + size >= M => (ptr + size) % M = ptr + size - M
  BY <1>1, SMTT(40)
<1>5. ptr + size < M
  BY <1>1, <1>2, <1>3, <1>4, SMTT(40)
<1>6. wrapping_add(ptr, size) = ptr + size /\ wrapping_add(ptr, k) = ptr + k
  <2>1. ptr + k < M
    BY <1>1, <1>5
  <2> QED
    BY <1>1, <1>5, <2>1, AddrIsNat, Zenon DEF M
<1>7. ptr \in UserAddrs /\ ptr + size \in UserAddrs
  BY <1>2, <1>6, Zenon DEF is_user_addr
<1> QED
  BY <1>1, <1>6, <1>7, SMTT(40) DEF UserAddrs

\* The checks in front of the loops cover every byte of the range.
LEMMA AcceptedRange ==
  ASSUME NEW kind \in Whole, NEW ptr \in Addrs, NEW len \in Addrs,
         IsLength(kind, len), Accepts(kind, ptr, len),
         NEW k \in 0 .. Length(kind, len) - 1
  PROVE  wrapping_add(ptr, k) \in UserAddrs
<1> USE UserCopyAssumption
<1>1. ptr \in Nat /\ len \in Nat /\ 2^W \in Nat /\ ptr < 2^W
  BY DEF Addrs
<1>2. CASE kind \in {"vmm_from", "vmm_to"}
  <2>1. wrapping_add(ptr, len) < End /\ ptr < End /\ ptr >= Base /\ len < 2^(W - 1)
    BY <1>2, Zenon
       DEF Accepts, IsLength, vmm_copy_to_user, vmm_copy_from_user, vmm_validate_user_range
  <2>2. ptr + len < 2^W
    BY <1>1, <2>1, SMTT(40)
  <2>3. ptr + len < End
    BY <1>1, <2>1, <2>2, AddrIsNat, Zenon
  <2>4. k \in Nat /\ k < len
    BY <1>1, <1>2, SMTT(40) DEF Length
  <2>5. wrapping_add(ptr, k) = ptr + k
    BY <1>1, <2>2, <2>4, AddrIsNat, SMTT(40)
  <2> QED
    BY <1>1, <2>1, <2>3, <2>4, <2>5, SMTT(40) DEF UserAddrs
<1>3. CASE kind \in {"read", "write"}
  <2>1. validate_user_pointer(ptr, len)
    BY <1>3, Zenon DEF Accepts, handle_core_syscall
  <2>2. k \in Nat /\ k < len
    BY <1>1, <1>3, SMTT(40) DEF Length
  <2>3. ptr >= Base /\ ptr + len < 2^W /\ ptr + len <= End
    BY <1>1, <2>1, <2>2, SMTT(40) DEF validate_user_pointer
  <2>4. wrapping_add(ptr, k) = ptr + k
    BY <1>1, <2>2, <2>3, AddrIsNat, SMTT(40)
  <2> QED
    BY <1>1, <2>2, <2>3, <2>4, SMTT(40) DEF UserAddrs
<1>4. CASE kind \in {"u64_from", "u64_to"}
  <2>1. validate_user_ptr(ptr, WordSize) /\ Length(kind, len) = WordSize
    BY <1>4, Zenon DEF Accepts, get_user_u64, put_user_u64, Length
  <2> QED
    BY <2>1, ValidRange, Zenon
<1>5. CASE kind \in {"array_from", "array_to", "iovec_from", "iovec_to", "string_to",
                    "page_from", "page_to"}
  <2>1. Length(kind, len) = len
    BY <1>5, Zenon DEF Length
  <2>2. len # 0
    BY <1>1, <2>1, SMTT(40)
  <2>3. validate_user_ptr(ptr, len)
    BY <1>5, <2>2, ZenonT(40)
       DEF Accepts, copy_from_user_array, copy_to_user_array, copy_iovec_from_user,
           copy_iovec_to_user, copy_string_to_user, copy_page_aligned_from_user,
           copy_page_aligned_to_user, page_aligned_ok
  <2> QED
    BY <2>1, <2>3, ValidRange, Zenon
<1>6. kind \notin {"read_other", "write_other"}
  <2>1. 3 # 0 /\ 3 # 1 /\ 3 # 2
    OBVIOUS
  <2> QED
    BY <2>1, Zenon DEF Accepts, sys_read, sys_write
<1> QED
  BY <1>2, <1>3, <1>4, <1>5, <1>6, Zenon DEF Whole

\* A byte that a scan reads has been looked at.
LEMMA ScanCheckedIsUser ==
  ASSUME NEW a \in Nat, ScanChecked(a)
  PROVE  a \in UserAddrs
<1> USE UserCopyAssumption
<1>1. CASE op.kind = "vmm_string"
  BY <1>1 DEF ScanChecked, vmm_validate_user_range, UserAddrs
<1>2. CASE op.kind # "vmm_string"
  BY <1>2, Zenon DEF ScanChecked, copy_ok, is_user_addr
<1> QED
  BY <1>1, <1>2, Zenon
-----------------------------------------------------------------------------
(* One lemma per step. *)

LEMMA BeginInv ==
  ASSUME Inv, NEW kind \in Kinds, NEW ptr \in Pointers, NEW len \in Lengths,
         Begin(kind, ptr, len)
  PROVE  Inv'
<1> USE UserCopyAssumption
<1> DEFINE n == Length(kind, len)
           pc == IF ~ Accepts(kind, ptr, len) THEN "err"
                 ELSE IF kind \in Scanning THEN "scan" ELSE "copy"
<1>1. /\ op' = [kind |-> kind, ptr |-> ptr, len |-> n, i |-> 0, buf |-> <<>>, pc |-> pc]
      /\ touched' = {} /\ mem' = mem /\ IsLength(kind, len)
  BY Zenon DEF Begin
<1>2. ptr \in Addrs /\ len \in Addrs /\ len \in Nat /\ WordSize \in Nat
  BY DEF Addrs
<1>3. n \in Nat
  BY <1>2, Zenon DEF Length
<1>4. /\ pc \in {"copy", "scan", "err"}
      /\ pc = "scan" => kind \in Scanning
      /\ pc = "copy" => kind \notin Scanning
      /\ pc # "err" => Accepts(kind, ptr, len)
  BY Zenon
<1>5. kind \in Whole /\ pc = "copy" => \A k \in 0 .. n - 1 : wrapping_add(ptr, k) \in UserAddrs
  BY <1>1, <1>2, <1>4, AcceptedRange, Zenon
<1>6. kind = "vmm_string" => n > 0
  BY <1>1, <1>2, Zenon DEF IsLength, Length
<1> HIDE DEF n, pc
<1>7. /\ op'.kind = kind /\ op'.ptr = ptr /\ op'.len = n /\ op'.i = 0 /\ op'.buf = <<>>
      /\ op'.pc = pc
  BY <1>1, Zenon
<1>8. op' \in Ops
  <2>1. <<>> \in Seq({0, 1})
    OBVIOUS
  <2> QED
    BY <1>1, <1>2, <1>3, <1>4, <2>1, Zenon DEF Ops
<1>9. TypeOK'
  BY <1>1, <1>8, Zenon DEF Inv, TypeOK
<1>10. Phases'
  BY <1>4, <1>7, Zenon DEF Phases
<1>11. RangeChecked'
  BY <1>4, <1>5, <1>7, Zenon DEF RangeChecked
<1>12. OnlyProcessTouched' /\ AllOrNothing'
  BY <1>1, Zenon DEF OnlyProcessTouched, AllOrNothing
<1>13. StringSoFar'
  <2>1. Range(<<>>) = {} /\ Len(<<>>) = 0
    BY SMTT(40) DEF Range
  <2> QED
    BY <1>3, <1>6, <1>7, <2>1, SMTT(40) DEF StringSoFar
<1>14. StringsAreWellFormed'
  BY <1>4, <1>7, Zenon DEF StringsAreWellFormed
<1> QED
  BY <1>9, <1>10, <1>11, <1>12, <1>13, <1>14, Zenon DEF Inv

\* Giving up: what was touched stays.
LEMMA ErrInv ==
  ASSUME Inv, End_("err"), op.kind \notin Whole
  PROVE  Inv'
<1> USE UserCopyAssumption
<1>1. op' = [op EXCEPT !.pc = "err"] /\ mem' = mem /\ touched' = touched /\ op \in Ops
  BY Zenon DEF End_, Inv, TypeOK
<1>2. op'.kind = op.kind /\ op'.pc = "err" /\ op' \in Ops
  BY <1>1, Zenon DEF Ops
<1> QED
  BY <1>1, <1>2, Zenon DEF Inv, TypeOK, Phases, RangeChecked, OnlyProcessTouched,
                    AllOrNothing, StringSoFar, StringsAreWellFormed

\* Counting one byte changes nothing else of the operation.
LEMMA NextByte ==
  ASSUME op \in Ops, op' = [op EXCEPT !.i = @ + 1]
  PROVE  /\ op'.kind = op.kind /\ op'.ptr = op.ptr /\ op'.len = op.len /\ op'.i = op.i + 1
         /\ op'.buf = op.buf /\ op'.pc = op.pc /\ op' \in Ops
<1> USE UserCopyAssumption
<1> DEFINE m == op.i + 1
<1>1. m \in Nat /\ op' = [op EXCEPT !.i = m]
  BY SMTT(40) DEF Ops
<1> HIDE DEF m
<1>2. op'.kind = op.kind /\ op'.ptr = op.ptr /\ op'.len = op.len /\ op'.i = m
      /\ op'.buf = op.buf /\ op'.pc = op.pc
  BY <1>1, Zenon DEF Ops
<1>3. op' \in Ops
  BY <1>1, ZenonT(40) DEF Ops
<1> QED
  BY <1>2, <1>3, Zenon DEF m

\* A copy loop moves one byte.
LEMMA CopyByteInv ==
  ASSUME Inv, CopyByte
  PROVE  Inv'
<1> USE UserCopyAssumption
<1>1. op.pc = "copy" /\ op.i < op.len
  BY Zenon DEF CopyByte, Now
<1>2. op \in Ops /\ op.i \in Nat /\ op.len \in Nat /\ op.ptr \in Nat
  BY DEF Inv, TypeOK, Ops, Addrs
<1>3. Here = wrapping_add(op.ptr, op.i) /\ Here \in Nat
  BY <1>2, AddrIsNat, Zenon DEF Here
<1>4. op.kind \in Whole => Here \in UserAddrs
  <2>1. op.i \in 0 .. op.len - 1
    BY <1>1, <1>2
  <2> QED
    BY <1>1, <1>3, <2>1, Zenon DEF Inv, RangeChecked
<1>5. CASE ~ ByteChecked(op.kind, Here)
  <2>1. End_("err")
    BY <1>5, Zenon DEF CopyByte
  <2>2. op.kind \notin Whole
    BY <1>4, <1>5, Zenon DEF ByteChecked, is_user_addr
  <2> QED
    BY <2>1, <2>2, ErrInv, Zenon
<1>6. CASE ByteChecked(op.kind, Here)
  <2>1. /\ touched' = touched \cup {Here} /\ op' = [op EXCEPT !.i = @ + 1]
        /\ mem' = [a \in UserAddrs |-> IF op.kind \in Writing /\ a = Here THEN 1 ELSE mem[a]]
    BY <1>6, Zenon DEF CopyByte, Touch
  <2>3. /\ op'.kind = op.kind /\ op'.ptr = op.ptr /\ op'.len = op.len /\ op'.i = op.i + 1
        /\ op'.buf = op.buf /\ op'.pc = op.pc /\ op' \in Ops
    BY <1>2, <2>1, NextByte, Zenon
  <2>5. Here \in UserAddrs
    BY <1>4, <1>6, Zenon DEF ByteChecked, Whole, is_user_addr
  <2> HIDE DEF Here
  <2>6. mem' \in [UserAddrs -> {0, 1}]
    BY <2>1, Zenon DEF Inv, TypeOK
  <2>7. TypeOK' /\ Phases'
    BY <2>3, <2>6, Zenon DEF TypeOK, Phases, Inv
  <2>8. RangeChecked'
    BY <2>3, Zenon DEF RangeChecked, Inv
  <2>9. OnlyProcessTouched'
    BY <2>1, <2>5, Zenon DEF OnlyProcessTouched, Inv
  <2>10. AllOrNothing'
    BY <1>1, <2>3, Zenon DEF AllOrNothing
  <2>12. StringSoFar' /\ StringsAreWellFormed'
    BY <1>1, <2>3, Zenon DEF StringSoFar, StringsAreWellFormed
  <2> QED
    BY <2>7, <2>8, <2>9, <2>10, <2>12, Zenon DEF Inv
<1> QED
  BY <1>5, <1>6, Zenon

LEMMA CopyDoneInv ==
  ASSUME Inv, CopyDone
  PROVE  Inv'
<1> USE UserCopyAssumption
<1>1. /\ op.pc = "copy" /\ (op.i = op.len \/ op.kind = "read")
      /\ op' = [op EXCEPT !.pc = "ok"] /\ mem' = mem /\ touched' = touched /\ op \in Ops
  BY Zenon DEF CopyDone, Now, End_, Inv, TypeOK
<1>2. /\ op'.kind = op.kind /\ op'.ptr = op.ptr /\ op'.len = op.len /\ op'.i = op.i
      /\ op'.buf = op.buf /\ op'.pc = "ok" /\ op' \in Ops
  BY <1>1, Zenon DEF Ops
<1>3. op.kind \in Scanning => op.kind = "limit"
  BY <1>1, Zenon DEF Inv, Phases
<1>4. TypeOK' /\ Phases' /\ RangeChecked' /\ OnlyProcessTouched' /\ AllOrNothing' /\ StringSoFar'
  BY <1>1, <1>2, Zenon
     DEF Inv, TypeOK, Phases, RangeChecked, OnlyProcessTouched, AllOrNothing, StringSoFar
<1>5. StringsAreWellFormed'
  BY <1>2, <1>3, Zenon DEF StringsAreWellFormed, Scanning
<1> QED
  BY <1>4, <1>5, Zenon DEF Inv

\* Another thread stores a byte.
LEMMA UserStoreInv ==
  ASSUME Inv, NEW a \in UserAddrs, NEW b \in {0, 1}, UserStore(a, b)
  PROVE  Inv'
<1> USE UserCopyAssumption
<1>1. /\ op.kind \in Scanning /\ mem' = [mem EXCEPT ![a] = b]
      /\ op' = op /\ touched' = touched
  BY Zenon DEF UserStore
<1>2. mem' \in [UserAddrs -> {0, 1}]
  BY <1>1, Zenon DEF Inv, TypeOK
<1> QED
  BY <1>1, <1>2, Zenon DEF Inv, TypeOK, Phases, RangeChecked, OnlyProcessTouched,
                      AllOrNothing, StringSoFar, StringsAreWellFormed

\* The three ways a scan changes its operation, field by field.
LEMMA StoreFields ==
  ASSUME op \in Ops, NEW m \in Nat, NEW s \in Seq({0, 1}),
         op' = [op EXCEPT !.i = m, !.buf = s]
  PROVE  /\ op'.kind = op.kind /\ op'.ptr = op.ptr /\ op'.len = op.len /\ op'.i = m /\ op'.buf = s
         /\ op'.pc = op.pc /\ op' \in Ops
<1> USE UserCopyAssumption
<1>1. op'.kind = op.kind /\ op'.ptr = op.ptr /\ op'.len = op.len /\ op'.i = m /\ op'.buf = s /\ op'.pc = op.pc
  BY Zenon DEF Ops
<1>2. op' \in Ops
  BY Zenon DEF Ops
<1> QED
  BY <1>1, <1>2, Zenon

LEMMA CloseFields ==
  ASSUME op \in Ops, NEW pc \in {"copy", "scan", "ok", "err"}, NEW s \in Seq({0, 1}),
         op' = [op EXCEPT !.pc = pc, !.buf = s]
  PROVE  /\ op'.kind = op.kind /\ op'.ptr = op.ptr /\ op'.len = op.len /\ op'.i = op.i /\ op'.buf = s
         /\ op'.pc = pc /\ op' \in Ops
<1> USE UserCopyAssumption
<1>1. op'.kind = op.kind /\ op'.ptr = op.ptr /\ op'.len = op.len /\ op'.i = op.i /\ op'.buf = s /\ op'.pc = pc
  BY Zenon DEF Ops
<1>2. op' \in Ops
  BY Zenon DEF Ops
<1> QED
  BY <1>1, <1>2, Zenon

LEMMA CopyFields ==
  ASSUME op \in Ops, NEW pc \in {"copy", "scan", "ok", "err"}, NEW n \in Nat,
         op' = [op EXCEPT !.pc = pc, !.len = n, !.i = 0, !.buf = <<>>]
  PROVE  /\ op'.kind = op.kind /\ op'.ptr = op.ptr /\ op'.len = n /\ op'.i = 0 /\ op'.buf = <<>>
         /\ op'.pc = pc /\ op' \in Ops
<1> USE UserCopyAssumption
<1>1. op'.kind = op.kind /\ op'.ptr = op.ptr /\ op'.len = n /\ op'.i = 0 /\ op'.buf = <<>> /\ op'.pc = pc
  BY Zenon DEF Ops
<1>2. <<>> \in Seq({0, 1})
  OBVIOUS
<1>3. op' \in Ops
  BY <1>2, ZenonT(40) DEF Ops
<1> QED
  BY <1>1, <1>3, Zenon

\* Appending to a string of bytes.
LEMMA AppendByte ==
  ASSUME NEW s \in Seq({0, 1}), NEW b \in {0, 1}
  PROVE  /\ Append(s, b) \in Seq({0, 1}) /\ Len(Append(s, b)) = Len(s) + 1 /\ Len(s) \in Nat
         /\ Last(Append(s, b)) = b /\ Front(Append(s, b)) = s
         /\ Range(Append(s, b)) = Range(s) \cup {b}
<1> USE UserCopyAssumption
<1>1. /\ Append(s, b) \in Seq({0, 1}) /\ Len(Append(s, b)) = Len(s) + 1 /\ Len(s) \in Nat
      /\ \A k \in 1 .. Len(s) : Append(s, b)[k] = s[k]
      /\ Append(s, b)[Len(s) + 1] = b
  OBVIOUS
<1>2. Last(Append(s, b)) = b
  BY <1>1, Zenon DEF Last
<1>3. Front(Append(s, b)) = s
  <2>1. Front(Append(s, b)) = SubSeq(Append(s, b), 1, Len(s))
    BY <1>1, SMTT(40) DEF Front
  <2> QED
    BY <1>1, <2>1, SMTT(40)
<1>4. Range(Append(s, b)) = Range(s) \cup {b}
  <2> DEFINE t == Append(s, b)
  <2>1. DOMAIN t = 1 .. Len(s) + 1 /\ DOMAIN s = 1 .. Len(s)
    BY <1>1, SMTT(40)
  <2> HIDE DEF t
  <2>2. \A k \in 1 .. Len(s) : t[k] = s[k]
    BY <1>1, Zenon DEF t
  <2>3. t[Len(s) + 1] = b
    BY <1>1, Zenon DEF t
  <2>4. 1 .. Len(s) + 1 = (1 .. Len(s)) \cup {Len(s) + 1}
    BY <1>1, SMTT(40)
  <2>5. {t[k] : k \in 1 .. Len(s) + 1} = {s[k] : k \in 1 .. Len(s)} \cup {b}
    BY <2>2, <2>3, <2>4, ZenonT(40)
  <2> QED
    BY <2>1, <2>5, ZenonT(40) DEF Range, t
<1> QED
  BY <1>1, <1>2, <1>3, <1>4, Zenon

\* The rounds leave room in the buffer.
LEMMA Rounds ==
  ASSUME op \in Ops, op.kind \in Scanning
  PROVE  /\ op.kind = "string" /\ op.i < Loop.rounds => op.i + 1 <= op.len
         /\ op.kind = "vmm_string" /\ op.i < Loop.rounds => op.i + 1 <= op.len - 1
         /\ op.kind = "limit" => Loop.full = "err"
         /\ op.kind # "limit" => Loop.full \in {"ok", "err"}
<1> USE UserCopyAssumption
<1>1. op.i \in Nat /\ op.len \in Nat
  BY Zenon DEF Ops
<1>2. op.kind = "string" => Loop = copy_string_from_user
  BY Zenon DEF Loop
<1>3. op.kind = "vmm_string" => Loop = vmm_copy_string_from_user
  BY Zenon DEF Loop
<1>4. op.kind = "limit" => Loop = copy_from_user_with_limit
  BY Zenon DEF Loop
<1>5. op.kind = "length" => Loop = validate_string_ptr
  BY Zenon DEF Loop
<1>6. op.kind = "string" => Loop.rounds <= op.len /\ Loop.rounds \in Int /\ Loop.full = "ok"
  BY <1>1, <1>2, SMTT(40) DEF copy_string_from_user
<1>7. op.kind = "vmm_string" => Loop.rounds = op.len - 1 /\ Loop.full = "ok"
  BY <1>1, <1>3, SMTT(40) DEF vmm_copy_string_from_user
<1>8. op.kind = "limit" => Loop.full = "err"
  BY <1>4, SMTT(40) DEF copy_from_user_with_limit
<1>9. op.kind = "length" => Loop.full = "err"
  BY <1>5, SMTT(40) DEF validate_string_ptr
<1> HIDE DEF Loop
<1> QED
  BY <1>1, <1>6, <1>7, <1>8, <1>9, SMTT(40) DEF Scanning

\* A round of a scan: the byte compared with zero is the one that is stored.
LEMMA ScanByteInv ==
  ASSUME Inv, ScanByte
  PROVE  Inv'
<1> USE UserCopyAssumption
<1>1. CASE ~ ScanChecked(Here)
  <2>1. End_("err") /\ op.pc = "scan"
    BY <1>1, ZenonT(40) DEF ScanByte, Now
  <2>2. op.kind \notin Whole
    BY <2>1, Zenon DEF Inv, Phases, Scanning, Whole
  <2> QED
    BY <2>1, <2>2, ErrInv, Zenon
<1>2. CASE ScanChecked(Here)
  <2>1. op.pc = "scan" /\ op.i < Loop.rounds
    BY ZenonT(40) DEF ScanByte, Now
  <2>2. touched' = touched \cup {Here} /\ mem' = mem
    BY <1>2, ZenonT(40) DEF ScanByte, Touch
  <2>3. /\ op \in Ops /\ op.i \in Nat /\ op.len \in Nat /\ op.ptr \in Nat
        /\ op.buf \in Seq({0, 1}) /\ op.kind \in Scanning
    BY <2>1 DEF Inv, TypeOK, Ops, Addrs, Phases
  <2>4. Here = wrapping_add(op.ptr, op.i) /\ Here \in Nat
    BY <2>3, AddrIsNat, ZenonT(40) DEF Here
  <2>5. Here \in UserAddrs
    BY <1>2, <2>4, ScanCheckedIsUser, Zenon
  <2>6. Byte(Here) \in {0, 1}
    BY <2>5, Zenon DEF Byte, is_user_addr, Inv, TypeOK
  <2>7. OnlyProcessTouched' /\ op.kind \notin Whole
    BY <2>2, <2>3, <2>5, Zenon DEF OnlyProcessTouched, Inv, Scanning, Whole
  <2>9. 0 \notin Range(op.buf) /\ Len(op.buf) = op.i
    BY <2>1, Zenon DEF Inv, StringSoFar
  <2>10. /\ op.kind = "string" => op.i + 1 <= op.len
         /\ op.kind = "vmm_string" => op.i + 1 <= op.len - 1
    BY <2>1, <2>3, Rounds, Zenon
  <2> DEFINE limited == [op EXCEPT !.pc = IF copy_ok(op.ptr, op.i) THEN "copy" ELSE "err",
                                   !.len = op.i, !.i = 0, !.buf = <<>>]
             closed == [op EXCEPT !.pc = "ok", !.buf = Append(@, 0)]
             found == [op EXCEPT !.pc = "ok"]
  <2>11. Byte(Here) = 0 => op' = CASE op.kind = "limit" -> limited
                                   [] op.kind = "vmm_string" -> closed
                                   [] OTHER -> found
    BY <1>2, ZenonT(40) DEF ScanByte
  <2>12. CASE Byte(Here) # 0
    <3> DEFINE b == Byte(Here)
    <3>1. op' = [op EXCEPT !.i = op.i + 1, !.buf = Append(op.buf, b)]
      BY <1>2, <2>12, Zenon DEF ScanByte, Stored
    <3>2. b = 1
      BY <2>6, <2>12, Zenon
    <3> HIDE DEF b
    <3> DEFINE s == Append(op.buf, b)
               m == op.i + 1
    <3>3. s \in Seq({0, 1}) /\ Len(s) = op.i + 1 /\ 0 \notin Range(s) /\ m \in Nat
      BY <2>3, <2>9, <3>2, AppendByte, SMTT(40)
    <3>4. op' = [op EXCEPT !.i = m, !.buf = s]
      BY <3>1, Zenon
    <3> HIDE DEF s, m
    <3>5. /\ op'.kind = op.kind /\ op'.ptr = op.ptr /\ op'.len = op.len /\ op'.i = m
          /\ op'.buf = s /\ op'.pc = "scan" /\ op' \in Ops
      BY <2>1, <2>3, <3>3, <3>4, StoreFields, ZenonT(40)
    <3>6. TypeOK' /\ Phases' /\ RangeChecked' /\ AllOrNothing' /\ StringsAreWellFormed'
      BY <2>2, <2>3, <2>7, <3>5, Zenon
        DEF Inv, TypeOK, Phases, RangeChecked, AllOrNothing, StringsAreWellFormed
    <3>7. StringSoFar'
      BY <2>10, <3>3, <3>5, Zenon DEF StringSoFar, m
    <3> QED
      BY <2>7, <3>6, <3>7, Zenon DEF Inv
  <2>13. CASE Byte(Here) = 0 /\ op.kind = "limit"
    <3> DEFINE pc == IF copy_ok(op.ptr, op.i) THEN "copy" ELSE "err"
    <3>1. op' = [op EXCEPT !.pc = pc, !.len = op.i, !.i = 0, !.buf = <<>>]
      <4>1. op' = limited
        <5> HIDE DEF limited, closed, found
        <5> QED
          BY <2>13, <2>11, Zenon
      <4> QED
        BY <4>1, Zenon
    <3>2. pc \in {"copy", "err"}
      BY ZenonT(40)
    <3> HIDE DEF pc
    <3>3. /\ op'.kind = op.kind /\ op'.ptr = op.ptr /\ op'.len = op.i /\ op'.i = 0
          /\ op'.pc = pc /\ op' \in Ops
      BY <2>3, <3>1, <3>2, CopyFields, ZenonT(40)
    <3>4. TypeOK' /\ Phases' /\ RangeChecked' /\ AllOrNothing' /\ StringsAreWellFormed' /\ StringSoFar'
      BY <2>2, <2>3, <2>7, <2>13, <3>2, <3>3, Zenon
        DEF Inv, TypeOK, Phases, RangeChecked, AllOrNothing, StringsAreWellFormed, StringSoFar
    <3> QED
      BY <2>7, <3>4, Zenon DEF Inv
  <2>14. CASE Byte(Here) = 0 /\ op.kind = "vmm_string"
    <3> DEFINE s == Append(op.buf, 0)
    <3>1. op' = [op EXCEPT !.pc = "ok", !.buf = s]
      <4>1. op' = closed
        <5> HIDE DEF limited, closed, found
        <5> QED
          BY <2>14, <2>11, Zenon
      <4> QED
        BY <4>1, Zenon
    <3>2. s \in Seq({0, 1}) /\ Len(s) = op.i + 1 /\ Last(s) = 0 /\ Front(s) = op.buf
      BY <2>3, <2>9, AppendByte, Zenon
    <3> HIDE DEF s
    <3>3. /\ op'.kind = op.kind /\ op'.len = op.len /\ op'.buf = s /\ op'.pc = "ok" /\ op' \in Ops
      BY <2>3, <3>1, <3>2, CloseFields, ZenonT(40)
    <3>4. TypeOK' /\ Phases' /\ RangeChecked' /\ AllOrNothing' /\ StringSoFar'
      BY <2>2, <2>7, <3>3, Zenon
        DEF Inv, TypeOK, Phases, RangeChecked, AllOrNothing, StringSoFar
    <3>5. StringsAreWellFormed'
      <4>1. Len(s) \in 1 .. op.len
        BY <2>3, <2>10, <2>14, <3>2, SMTT(40)
      <4> QED
        BY <2>9, <2>14, <3>2, <3>3, <4>1, Zenon DEF StringsAreWellFormed
    <3> QED
      BY <2>7, <3>4, <3>5, Zenon DEF Inv
  <2>15. CASE Byte(Here) = 0 /\ op.kind \in {"string", "length"}
    <3>1. op' = [op EXCEPT !.pc = "ok"]
      <4>1. op' = found
        <5> HIDE DEF limited, closed, found
        <5> QED
          BY <2>15, <2>11, Zenon
      <4> QED
        BY <4>1, Zenon
    <3>2. /\ op'.kind = op.kind /\ op'.len = op.len /\ op'.buf = op.buf /\ op'.pc = "ok"
          /\ op' \in Ops
      BY <2>3, <3>1, ZenonT(40) DEF Ops
    <3>3. TypeOK' /\ Phases' /\ RangeChecked' /\ AllOrNothing' /\ StringSoFar'
      BY <2>2, <2>7, <3>2, Zenon
        DEF Inv, TypeOK, Phases, RangeChecked, AllOrNothing, StringSoFar
    <3>4. StringsAreWellFormed'
      BY <2>3, <2>9, <2>10, <2>15, <3>2, SMTT(40) DEF StringsAreWellFormed
    <3> QED
      BY <2>7, <3>3, <3>4, Zenon DEF Inv
  <2> QED
    BY <2>3, <2>12, <2>13, <2>14, <2>15, Zenon DEF Scanning
<1> QED
  BY <1>1, <1>2, Zenon

\* The rounds are over without a zero.
LEMMA ScanDoneInv ==
  ASSUME Inv, ScanDone
  PROVE  Inv'
<1> USE UserCopyAssumption
<1> DEFINE s == IF op.kind = "vmm_string" THEN Append(op.buf, 0) ELSE op.buf
           pc == Loop.full
<1>1. /\ op.pc = "scan" /\ mem' = mem /\ touched' = touched
      /\ op' = [op EXCEPT !.pc = pc, !.buf = s]
  BY Zenon DEF ScanDone, Now
<1>2. /\ op \in Ops /\ op.i \in Nat /\ op.len \in Nat /\ op.buf \in Seq({0, 1})
      /\ op.kind \in Scanning
  BY <1>1, Zenon DEF Inv, TypeOK, Ops, Phases
<1>3. /\ 0 \notin Range(op.buf) /\ Len(op.buf) = op.i
      /\ op.kind = "vmm_string" => op.i <= op.len - 1
      /\ op.kind = "string" => op.i <= op.len
  BY <1>1, Zenon DEF Inv, StringSoFar
<1>4. /\ s \in Seq({0, 1})
      /\ op.kind = "vmm_string" => Len(s) = op.i + 1 /\ Last(s) = 0 /\ Front(s) = op.buf
      /\ op.kind # "vmm_string" => s = op.buf
  BY <1>2, <1>3, AppendByte, Zenon
<1>5. pc \in {"ok", "err"} /\ (op.kind = "limit" => pc = "err")
  BY <1>2, Rounds, Zenon
<1> HIDE DEF s, pc
<1>6. /\ op'.kind = op.kind /\ op'.len = op.len /\ op'.buf = s /\ op'.pc = pc /\ op' \in Ops
  BY <1>1, <1>2, <1>4, <1>5, CloseFields, ZenonT(40)
<1>7. /\ TypeOK' /\ Phases' /\ RangeChecked' /\ AllOrNothing' /\ StringSoFar'
      /\ OnlyProcessTouched'
  BY <1>1, <1>2, <1>5, <1>6, Zenon
    DEF Inv, TypeOK, Phases, RangeChecked, AllOrNothing, StringSoFar, OnlyProcessTouched,
        Scanning, Whole
<1>8. StringsAreWellFormed'
  <2>1. op.kind = "vmm_string" => Len(s) \in 1 .. op.len
    BY <1>2, <1>3, <1>4, SMTT(40)
  <2> QED
    BY <1>3, <1>4, <1>6, <2>1, Zenon DEF StringsAreWellFormed
<1> QED
  BY <1>7, <1>8, Zenon DEF Inv
-----------------------------------------------------------------------------

LEMMA InitInv == Init => Inv
<1> USE UserCopyAssumption
<1> SUFFICES ASSUME Init PROVE Inv
  BY Zenon
<1>1. /\ op = [kind |-> "from", ptr |-> 0, len |-> 0, i |-> 0, buf |-> <<>>, pc |-> "err"]
      /\ mem = [a \in UserAddrs |-> 0] /\ touched = {}
  BY Zenon DEF Init
<1>2. op.kind = "from" /\ op.pc = "err"
  BY <1>1, Zenon
<1>3. op \in Ops
  <2>1. <<>> \in Seq({0, 1}) /\ 0 \in Addrs
    BY SMTT(40) DEF Addrs
  <2> QED
    BY <1>1, <2>1, Zenon DEF Ops
<1>4. mem \in [UserAddrs -> {0, 1}]
  BY <1>1, Zenon
<1> QED
  BY <1>1, <1>2, <1>3, <1>4, Zenon
    DEF Inv, TypeOK, Phases, RangeChecked, OnlyProcessTouched, AllOrNothing,
         StringSoFar, StringsAreWellFormed

LEMMA NextInv == Inv /\ [Next]_copyVars => Inv'
<1> USE UserCopyAssumption
<1> SUFFICES ASSUME Inv, [Next]_copyVars PROVE Inv'
  BY Zenon
<1>1. CASE Next
  BY <1>1, BeginInv, CopyByteInv, CopyDoneInv, ScanByteInv, ScanDoneInv, UserStoreInv,
     ZenonT(40), ZenonT(40) DEF Next
<1>2. CASE UNCHANGED copyVars
  BY <1>2, ZenonT(40) DEF copyVars, Inv, TypeOK, Phases, RangeChecked, OnlyProcessTouched,
              AllOrNothing, StringSoFar, StringsAreWellFormed
<1> QED
  BY <1>1, <1>2, Zenon

LEMMA SpecInv == Spec => []Inv
  BY InitInv, NextInv, PTL DEF Spec

\* Whatever pointers and lengths user programs pass, no copy reads or writes an
\* address outside the process: the loops that look at each byte do not, and
\* the checks in front of those that do not look cover their ranges.
THEOREM CopiesStayInProcess == Spec => []OnlyProcessTouched
<1> USE UserCopyAssumption
<1>1. Inv => OnlyProcessTouched
  BY Zenon DEF Inv
<1> QED
  BY <1>1, SpecInv, PTL

\* An operation that looks at its range before it begins never fails in the
\* middle of it, wherever the range lies in the address space: once the range
\* is accepted every byte of it passes the check in the loop.
THEOREM CopiesAreAllOrNothing == Spec => []AllOrNothing
<1> USE UserCopyAssumption
<1>1. Inv => AllOrNothing
  BY Zenon DEF Inv
<1> QED
  BY <1>1, SpecInv, PTL

\* Strings returned by copy_string_from_user, of dispatch.rs and of virtual.rs,
\* have no zero before their end and fit the buffer, although another thread
\* may change the bytes during the scan.
THEOREM CopiedStringsAreWellFormed == Spec => []StringsAreWellFormed
<1> USE UserCopyAssumption
<1>1. Inv => StringsAreWellFormed
  BY Zenon DEF Inv
<1> QED
  BY <1>1, SpecInv, PTL

-----------------------------------------------------------------------------
(* The page tables of the kernel. *)

-----------------------------------------------------------------------------
(***************************************************************************)
(* Recursive functions over numbers.                                       *)
(***************************************************************************)
\* A nonempty set of natural numbers has a least element.
LEMMA LeastNatural ==
  ASSUME NEW T, T \subseteq Nat, T # {}
  PROVE  \E x \in T : \A y \in T : x <= y
<1>1. PICK x \in T : \A y \in T : ~(<<y, x>> \in OpToRel(<, Nat))
  BY NatLessThanWellFounded, WFMin, Zenon
<1>2. \A y \in T : ~(y < x)
  BY <1>1, Zenon DEF OpToRel
<1> QED
  BY <1>2

\* Induction over lo .. hi, from all smaller numbers to the next.
LEMMA RangeInduction ==
  ASSUME NEW lo \in Nat, NEW hi \in Nat, NEW S,
         \A i \in lo .. hi : (\A j \in lo .. i - 1 : j \in S) => i \in S
  PROVE  lo .. hi \subseteq S
<1> DEFINE T == {i \in lo .. hi : i \notin S}
<1>1. ASSUME T # {} PROVE FALSE
  <2>1. T \subseteq Nat
    OBVIOUS
  <2>2. PICK x \in T : \A y \in T : x <= y
    BY <1>1, <2>1, LeastNatural, Zenon
  <2>3. x \in lo .. hi /\ \A j \in lo .. x - 1 : j \notin T
    BY <2>2
  <2>4. \A j \in lo .. x - 1 : j \in S
    BY <2>3
  <2>5. x \in S
    BY <2>3, <2>4, Zenon
  <2> QED
    BY <2>2, <2>5, Zenon
<1> QED
  BY <1>1, Zenon

-----------------------------------------------------------------------------
(***************************************************************************)
(* Tables and entries.                                                     *)
(***************************************************************************)
Tabs == 1 .. MaxTables + Spare
Index == 0 .. TableSize - 1
AllFlags == Low \cup High
Entries == [addr : Nat, flags : SUBSET AllFlags]
Mems == [Tabs -> [Index -> Entries]]
Slots == Tabs \X Index
Levels == IF Virt = {} THEN 2 ELSE Len(CHOOSE v \in Virt : TRUE)

LEMMA Sizes ==
  /\ TableSize \in Nat /\ TableSize > 4 /\ MaxTables \in Nat /\ MaxTables > 0 /\ Shift = 4
  /\ Spare = TableSize + 1 /\ Root = 1 /\ Root \in Tabs
  /\ \A n \in 1 .. MaxTables + 1 : n \in Tabs
BY PagingAssumption DEF Shift, Spare, Root, Tabs

LEMMA Pages ==
  ASSUME NEW v \in Virt
  PROVE  /\ Len(v) = Levels /\ Levels \in Nat /\ Levels > 1
         /\ \A k \in 1 .. Levels : v[k] \in 0 .. TableSize - Shift - 1
<1> DEFINE X == 0 .. TableSize - Shift - 1
<1>1. v \in Seq(X) /\ Len(v) > 1
  BY PagingAssumption, Zenon
<1>2. Len(v) = Levels
  <2>1. (CHOOSE w \in Virt : TRUE) \in Virt /\ Virt # {}
    BY Zenon
  <2> QED
    BY <2>1, PagingAssumption, Zenon DEF Levels
<1> HIDE DEF X
<1>3. Len(v) \in Nat /\ \A k \in 1 .. Len(v) : v[k] \in X
  BY <1>1
<1> QED
  BY <1>1, <1>2, <1>3, Zenon DEF X

LEMMA LevelsAre == Levels \in Nat /\ Levels > 1
<1>1. CASE Virt = {}
  BY <1>1 DEF Levels
<1>2. CASE Virt # {}
  <2>1. PICK v : v \in Virt
    BY <1>2, Zenon
  <2> QED
    BY <2>1, Pages, Zenon
<1> QED
  BY <1>1, <1>2, Zenon

LEMMA SamePage ==
  ASSUME NEW v \in Virt, NEW w \in Virt, \A k \in 1 .. Levels : v[k] = w[k]
  PROVE  v = w
<1>1. v \in Seq(0 .. TableSize - Shift - 1) /\ w \in Seq(0 .. TableSize - Shift - 1)
  BY PagingAssumption, Zenon
<1>2. Len(v) = Levels /\ Len(w) = Levels
  BY Pages, Zenon
<1> QED
  BY <1>1, <1>2

LEMMA NoSlotIsNone == NoSlot \notin Slots
BY Sizes DEF NoSlot, Slots, Tabs

LEMMA EntryParts ==
  /\ \A a, f : Entry(a, f).addr = a /\ Entry(a, f).flags = f
  /\ \A a \in Nat, f \in SUBSET AllFlags : Entry(a, f) \in Entries
  /\ \A e \in Entries : e.addr \in Nat /\ e.flags \in SUBSET AllFlags /\ e = Entry(e.addr, e.flags)
BY DEF Entry, Entries

LEMMA EmptyIs == empty \in Entries /\ ~ present(empty) /\ empty.flags = {}
<1>1. 0 \in Nat /\ {} \in SUBSET AllFlags
  BY Zenon
<1> QED
  BY <1>1, EntryParts DEF empty, present

LEMMA AtType ==
  ASSUME NEW m \in Mems, NEW s \in Slots
  PROVE  At(m, s) \in Entries
BY Zenon DEF At, Mems, Slots

LEMMA PutIs ==
  ASSUME NEW m \in Mems, NEW s \in Slots, NEW e \in Entries
  PROVE  /\ Put(m, s, e) \in Mems /\ At(Put(m, s, e), s) = e
         /\ \A r \in Slots : r # s => At(Put(m, s, e), r) = At(m, r)
<1>1. s[1] \in Tabs /\ s[2] \in Index /\ s = <<s[1], s[2]>>
  BY DEF Slots
<1>2. \A r \in Slots : r[1] \in Tabs /\ r[2] \in Index /\ r = <<r[1], r[2]>>
  BY DEF Slots
<1>3. Put(m, s, e) \in Mems
  BY <1>1, Zenon DEF Put, Mems
<1>4. At(Put(m, s, e), s) = e
  BY <1>1, Zenon DEF Put, Mems, At
<1>5. ASSUME NEW r \in Slots, r # s PROVE At(Put(m, s, e), r) = At(m, r)
  <2>1. r[1] # s[1] \/ r[2] # s[2]
    BY <1>1, <1>2, <1>5, Zenon
  <2> QED
    BY <1>1, <1>2, <2>1, Zenon DEF Put, Mems, At
<1> QED
  BY <1>3, <1>4, <1>5, Zenon

-----------------------------------------------------------------------------
(***************************************************************************)
(* Walks.                                                                  *)
(***************************************************************************)
\* One level down, for the code and for the hardware.
Below(m, s, i) == IF s = NoSlot \/ ~ present(At(m, s)) THEN NoSlot ELSE addr(At(m, s), i)
HwBelow(m, s, i) == IF s = NoSlot \/ ~ present(At(m, s)) THEN NoSlot ELSE <<At(m, s).addr, i>>

Follow(g, m, root, v) ==
  /\ g = [k \in 1 .. Len(v) |-> g[k]]
  /\ g[1] = <<root, v[1]>> /\ \A k \in 2 .. Len(v) : g[k] = Below(m, g[k - 1], v[k])
HwFollow(g, m, root, v) ==
  g[1] = <<root, v[1]>> /\ \A k \in 2 .. Len(v) : g[k] = HwBelow(m, g[k - 1], v[k])

LEMMA FindSlotIs ==
  ASSUME NEW v \in Virt, NEW m, NEW root
  PROVE  \E g : Follow(g, m, root, v) /\ FindSlot(m, root, v) = g[Len(v)]
<1> DEFINE n == Len(v)
           b == <<root, v[1]>>
           slot[k \in 1 .. n] ==
             IF k = 1 THEN <<root, v[1]>>
             ELSE LET s == slot[k - 1]
                  IN IF s = NoSlot \/ ~ present(At(m, s)) THEN NoSlot ELSE addr(At(m, s), v[k])
           Ok(g, k) == /\ g = [j \in 1 .. n |-> g[j]] /\ g[1] = b
                       /\ \A j \in 2 .. k : g[j] = Below(m, g[j - 1], v[j])
           S == {k \in 1 .. n : \E g : Ok(g, k)}
<1>1. FindSlot(m, root, v) = slot[n]
  BY Zenon DEF FindSlot
<1>2. n \in Nat /\ n > 1
  BY Pages, Zenon
<1> HIDE DEF n, b
<1>3. ASSUME NEW k \in 1 .. n, \A j \in 1 .. k - 1 : j \in S PROVE \E g : Ok(g, k)
  <2>1. CASE k = 1
    <3> DEFINE g == [j \in 1 .. n |-> b]
    <3>1. g = [j \in 1 .. n |-> g[j]] /\ g[1] = b /\ 2 .. 1 = {}
      BY <1>2
    <3> HIDE DEF g
    <3>2. Ok(g, k)
      BY <2>1, <3>1, Zenon
    <3> QED
      BY <3>2, Zenon
  <2>2. CASE k # 1
    <3>1. k - 1 \in 1 .. k - 1
      BY <2>2
    <3>2. PICK g : Ok(g, k - 1)
      BY <1>3, <3>1, Zenon
    <3> DEFINE w == Below(m, g[k - 1], v[k])
               h == [j \in 1 .. n |-> IF j = k THEN w ELSE g[j]]
    <3> HIDE DEF w
    <3>3. h = [j \in 1 .. n |-> h[j]] /\ h[1] = g[1] /\ h[k] = w /\ h[k - 1] = g[k - 1]
      BY <1>2, <2>2
    <3>4. \A j \in 2 .. k - 1 : h[j] = g[j] /\ h[j - 1] = g[j - 1]
      BY <1>2
    <3>5. \A j \in 2 .. k : j = k \/ j \in 2 .. k - 1
      OBVIOUS
    <3> HIDE DEF h
    <3>6. \A j \in 2 .. k : h[j] = Below(m, h[j - 1], v[j])
      <4> TAKE j \in 2 .. k
      <4>1. CASE j = k
        BY <3>3, <4>1, Zenon DEF w
      <4>2. CASE j \in 2 .. k - 1
        BY <3>2, <3>4, <4>2, Zenon
      <4> QED
        BY <3>5, <4>1, <4>2, Zenon
    <3>7. Ok(h, k)
      BY <3>2, <3>3, <3>6, Zenon
    <3> QED
      BY <3>7, Zenon
  <2> QED
    BY <2>1, <2>2, Zenon
<1>4. \A k \in 1 .. n : (\A j \in 1 .. k - 1 : j \in S) => k \in S
  BY <1>3, Zenon
<1>5. 1 \in Nat /\ n \in 1 .. n
  BY <1>2
<1>6. 1 .. n \subseteq S
  <2> HIDE DEF S
  <2> QED
    BY <1>2, <1>4, <1>5, RangeInduction, Zenon
<1>7. PICK g : Ok(g, n)
  BY <1>5, <1>6, Zenon
<1>8. \A k \in 1 .. n : k = 1 \/ k \in 2 .. n
  BY <1>2
<1>9. g = [k \in 1 .. n |-> IF k = 1 THEN <<root, v[1]>>
             ELSE LET s == g[k - 1]
                  IN IF s = NoSlot \/ ~ present(At(m, s)) THEN NoSlot ELSE addr(At(m, s), v[k])]
  <2>1. \A k \in 1 .. n : g[k] = IF k = 1 THEN <<root, v[1]>> ELSE Below(m, g[k - 1], v[k])
    BY <1>7, <1>8, Zenon DEF b
  <2>2. g = [k \in 1 .. n |-> IF k = 1 THEN <<root, v[1]>> ELSE Below(m, g[k - 1], v[k])]
    BY <1>7, <2>1, Zenon
  <2> QED
    BY <2>2, Zenon DEF Below
<1>10. slot = [k \in 1 .. n |-> IF k = 1 THEN <<root, v[1]>>
             ELSE LET s == slot[k - 1]
                  IN IF s = NoSlot \/ ~ present(At(m, s)) THEN NoSlot ELSE addr(At(m, s), v[k])]
  BY <1>9, Zenon
<1> HIDE DEF slot
<1>11. slot = [k \in 1 .. n |-> IF k = 1 THEN b ELSE Below(m, slot[k - 1], v[k])]
  BY <1>10, Zenon DEF Below, b
<1>12. /\ slot = [k \in 1 .. n |-> slot[k]]
       /\ slot[1] = b /\ \A k \in 2 .. n : slot[k] = Below(m, slot[k - 1], v[k])
  BY <1>2, <1>11
<1>13. Follow(slot, m, root, v)
  BY <1>12, Zenon DEF Follow, n, b
<1> QED
  BY <1>1, <1>13, Zenon DEF n


-----------------------------------------------------------------------------
(***************************************************************************)
(* The shape of the tables: each table below n has a level, the entries    *)
(* above the last level point one level down, and no two to the same table.*)
(***************************************************************************)
Upper(s, n, lev) == s[1] < n /\ lev[s[1]] < Levels
Points(m, n, lev, s) == Upper(s, n, lev) /\ present(At(m, s))

Levelled(m, n, lev) ==
  /\ m \in Mems /\ n \in Nat /\ n <= MaxTables + Spare + 1 /\ lev \in [Tabs -> 1 .. Levels]
  /\ \A s \in Slots : Points(m, n, lev, s) =>
       At(m, s).addr \in 1 .. n - 1 /\ lev[At(m, s).addr] = lev[s[1]] + 1

Shape(m, n, lev) ==
  /\ Levelled(m, n, lev) /\ n \in 2 .. MaxTables + 1 /\ lev[Root] = 1
  /\ \A s \in Slots : ~ (s[1] < n) => At(m, s) = empty
  /\ \A r, s \in Slots :
       (Points(m, n, lev, r) /\ Points(m, n, lev, s) /\ At(m, r).addr = At(m, s).addr) => r = s

\* A slot that a walk may be at on level k.
OnLevel(s, n, lev, k) == s \in Slots /\ s[1] < n /\ lev[s[1]] = k

LEMMA StepDown ==
  ASSUME NEW m, NEW n, NEW lev, Levelled(m, n, lev), NEW k \in 1 .. Levels, k < Levels,
         NEW s, OnLevel(s, n, lev, k), present(At(m, s)), Levels \in Nat,
         NEW i \in 0 .. TableSize - Shift - 1
  PROVE  /\ OnLevel(addr(At(m, s), i), n, lev, k + 1)
         /\ OnLevel(<<At(m, s).addr, i>>, n, lev, k + 1)
<1> DEFINE a == At(m, s).addr
<1>1. Points(m, n, lev, s) /\ s \in Slots /\ lev[s[1]] = k
  BY Zenon DEF Points, Upper, OnLevel
<1>2. a \in 1 .. n - 1 /\ lev[a] = k + 1 /\ n \in Nat /\ n <= MaxTables + Spare + 1
  BY <1>1, Zenon DEF Levelled
<1> HIDE DEF a
<1>3. a \in Tabs /\ a < n
  BY <1>2, Sizes DEF Tabs
<1>4. i \in Index /\ i + Shift \in Index /\ i + 0 \in Index
  BY Sizes DEF Index
<1>5. \A j \in Index : OnLevel(<<a, j>>, n, lev, k + 1)
  <2> TAKE j \in Index
  <2>1. <<a, j>> \in Slots /\ <<a, j>>[1] = a
    BY <1>3, Zenon DEF Slots
  <2> QED
    BY <1>2, <1>3, <2>1, Zenon DEF OnLevel
<1>6. addr(At(m, s), i) \in {<<a, i + Shift>>, <<a, i + 0>>}
  BY Zenon DEF addr, a
<1> QED
  BY <1>4, <1>5, <1>6, Zenon DEF a

LEMMA FollowLevels ==
  ASSUME NEW m, NEW n, NEW lev, Levelled(m, n, lev), NEW root, root \in Tabs, root < n, lev[root] = 1,
         NEW v \in Virt, NEW g, Follow(g, m, root, v)
  PROVE  \A k \in 1 .. Levels : g[k] = NoSlot \/ OnLevel(g[k], n, lev, k)
<1> DEFINE S == {k \in 1 .. Levels : g[k] = NoSlot \/ OnLevel(g[k], n, lev, k)}
<1>1. /\ Len(v) = Levels /\ Levels \in Nat /\ 1 < Levels
      /\ \A k \in 1 .. Levels : v[k] \in 0 .. TableSize - Shift - 1
  BY Pages, Zenon
<1>2. ASSUME NEW k \in 1 .. Levels, \A j \in 1 .. k - 1 : j \in S
      PROVE  g[k] = NoSlot \/ OnLevel(g[k], n, lev, k)
  <2>1. CASE k = 1
    <3>1. g[1] = <<root, v[1]>>
      BY Zenon DEF Follow
    <3>2. v[1] \in Index
      BY <1>1, Sizes DEF Index
    <3>3. <<root, v[1]>> \in Slots /\ <<root, v[1]>>[1] = root
      BY <3>2, Zenon DEF Slots
    <3> QED
      BY <2>1, <3>1, <3>3, Zenon DEF OnLevel
  <2>2. CASE k # 1
    <3> DEFINE j == k - 1
    <3>1. j \in 1 .. k - 1 /\ j \in 1 .. Levels /\ j < Levels /\ j + 1 = k /\ k \in 2 .. Levels
      BY <1>1, <2>2
    <3>2. g[k] = Below(m, g[j], v[k])
      BY <1>1, <3>1, Zenon DEF Follow
    <3> HIDE DEF j
    <3>3. g[j] = NoSlot \/ OnLevel(g[j], n, lev, j)
      BY <1>2, <3>1, Zenon
    <3>4. CASE g[j] = NoSlot \/ ~ present(At(m, g[j]))
      BY <3>2, <3>4, Zenon DEF Below
    <3>5. CASE ~ (g[j] = NoSlot \/ ~ present(At(m, g[j])))
      <4>1. g[k] = addr(At(m, g[j]), v[k])
        BY <3>2, <3>5, Zenon DEF Below
      <4>2. OnLevel(addr(At(m, g[j]), v[k]), n, lev, j + 1)
        BY <1>1, <3>1, <3>3, <3>5, StepDown, Zenon
      <4> QED
        BY <3>1, <4>1, <4>2, Zenon
    <3> QED
      BY <3>4, <3>5, Zenon
  <2> QED
    BY <2>1, <2>2, Zenon
<1>3. \A k \in 1 .. Levels : (\A j \in 1 .. k - 1 : j \in S) => k \in S
  BY <1>2, Zenon
<1>4. 1 \in Nat
  BY Zenon
<1> HIDE DEF S
<1>5. 1 .. Levels \subseteq S
  BY <1>1, <1>3, <1>4, RangeInduction, Zenon
<1> QED
  BY <1>5, Zenon DEF S

\* What translate returns at the end of a walk.
Found(m, s) == IF s # NoSlot /\ present(At(m, s)) THEN At(m, s) ELSE Unmapped

LEMMA TranslateIs ==
  ASSUME NEW v \in Virt, NEW m
  PROVE  \E g : /\ Follow(g, m, Root, v) /\ FindSlot(m, Root, v) = g[Levels]
                /\ translate(m, Root, v) = Found(m, g[Levels])
<1>1. PICK g : Follow(g, m, Root, v) /\ FindSlot(m, Root, v) = g[Len(v)]
  BY FindSlotIs, Zenon
<1>2. Len(v) = Levels
  BY Pages, Zenon
<1> QED
  BY <1>1, <1>2, Zenon DEF translate, Found

LEMMA FollowUnique ==
  ASSUME NEW m, NEW root, NEW v \in Virt, NEW g, NEW h, Follow(g, m, root, v), Follow(h, m, root, v)
  PROVE  g = h
<1> DEFINE S == {k \in 1 .. Levels : g[k] = h[k]}
<1>1. Len(v) = Levels /\ Levels \in Nat /\ 1 \in Nat
  BY Pages, Zenon
<1>2. ASSUME NEW k \in 1 .. Levels, \A j \in 1 .. k - 1 : j \in S PROVE g[k] = h[k]
  <2>1. CASE k = 1
    BY <2>1, Zenon DEF Follow
  <2>2. CASE k # 1
    <3>1. k - 1 \in 1 .. k - 1 /\ k \in 2 .. Levels
      BY <2>2
    <3>2. g[k - 1] = h[k - 1]
      BY <1>2, <3>1, Zenon
    <3>3. g[k] = Below(m, g[k - 1], v[k]) /\ h[k] = Below(m, h[k - 1], v[k])
      BY <1>1, <3>1, Zenon DEF Follow
    <3> QED
      BY <3>2, <3>3, Zenon
  <2> QED
    BY <2>1, <2>2, Zenon
<1>3. \A k \in 1 .. Levels : (\A j \in 1 .. k - 1 : j \in S) => k \in S
  BY <1>2, Zenon
<1> HIDE DEF S
<1>4. 1 .. Levels \subseteq S
  BY <1>1, <1>3, RangeInduction, Zenon
<1>5. \A k \in 1 .. Levels : g[k] = h[k]
  BY <1>4, Zenon DEF S
<1>6. g = [k \in 1 .. Levels |-> g[k]] /\ h = [k \in 1 .. Levels |-> h[k]]
  BY <1>1, Zenon DEF Follow
<1>7. [k \in 1 .. Levels |-> g[k]] = [k \in 1 .. Levels |-> h[k]]
  BY <1>5
<1> QED
  BY <1>6, <1>7, Zenon


-----------------------------------------------------------------------------
(***************************************************************************)
(* The walk of the hardware.                                               *)
(***************************************************************************)
LEMMA HwFollowLevels ==
  ASSUME NEW m, NEW n, NEW lev, Levelled(m, n, lev), NEW root, root \in Tabs, root < n, lev[root] = 1,
         NEW v \in Virt, NEW h, HwFollow(h, m, root, v)
  PROVE  \A k \in 1 .. Levels : h[k] = NoSlot \/ OnLevel(h[k], n, lev, k)
<1> DEFINE S == {k \in 1 .. Levels : h[k] = NoSlot \/ OnLevel(h[k], n, lev, k)}
<1>1. /\ Len(v) = Levels /\ Levels \in Nat /\ 1 < Levels
      /\ \A k \in 1 .. Levels : v[k] \in 0 .. TableSize - Shift - 1
  BY Pages, Zenon
<1>2. ASSUME NEW k \in 1 .. Levels, \A j \in 1 .. k - 1 : j \in S
      PROVE  h[k] = NoSlot \/ OnLevel(h[k], n, lev, k)
  <2>1. CASE k = 1
    <3>1. h[1] = <<root, v[1]>>
      BY Zenon DEF HwFollow
    <3>2. v[1] \in Index
      BY <1>1, Sizes DEF Index
    <3>3. <<root, v[1]>> \in Slots /\ <<root, v[1]>>[1] = root
      BY <3>2, Zenon DEF Slots
    <3> QED
      BY <2>1, <3>1, <3>3, Zenon DEF OnLevel
  <2>2. CASE k # 1
    <3> DEFINE j == k - 1
    <3>1. j \in 1 .. k - 1 /\ j \in 1 .. Levels /\ j < Levels /\ j + 1 = k /\ k \in 2 .. Levels
      BY <1>1, <2>2
    <3>2. h[k] = HwBelow(m, h[j], v[k])
      BY <1>1, <3>1, Zenon DEF HwFollow
    <3> HIDE DEF j
    <3>3. h[j] = NoSlot \/ OnLevel(h[j], n, lev, j)
      BY <1>2, <3>1, Zenon
    <3>4. CASE h[j] = NoSlot \/ ~ present(At(m, h[j]))
      BY <3>2, <3>4, Zenon DEF HwBelow
    <3>5. CASE ~ (h[j] = NoSlot \/ ~ present(At(m, h[j])))
      <4>1. h[k] = <<At(m, h[j]).addr, v[k]>>
        BY <3>2, <3>5, Zenon DEF HwBelow
      <4>2. OnLevel(<<At(m, h[j]).addr, v[k]>>, n, lev, j + 1)
        BY <1>1, <3>1, <3>3, <3>5, StepDown, Zenon
      <4> QED
        BY <3>1, <4>1, <4>2, Zenon
    <3> QED
      BY <3>4, <3>5, Zenon
  <2> QED
    BY <2>1, <2>2, Zenon
<1>3. \A k \in 1 .. Levels : (\A j \in 1 .. k - 1 : j \in S) => k \in S
  BY <1>2, Zenon
<1>4. 1 \in Nat
  BY Zenon
<1> HIDE DEF S
<1>5. 1 .. Levels \subseteq S
  BY <1>1, <1>3, <1>4, RangeInduction, Zenon
<1> QED
  BY <1>5, Zenon DEF S

\* A walk that has lost its way does not find it again.
LEMMA HwLost ==
  ASSUME NEW v \in Virt, NEW m, NEW root, NEW h, HwFollow(h, m, root, v),
         NEW l \in 1 .. Levels, h[l] = NoSlot
  PROVE  \A k \in l .. Levels : h[k] = NoSlot
<1> DEFINE S == {k \in l .. Levels : h[k] = NoSlot}
<1>1. Len(v) = Levels /\ Levels \in Nat /\ l \in Nat
  BY Pages
<1>2. ASSUME NEW k \in l .. Levels, \A j \in l .. k - 1 : j \in S PROVE h[k] = NoSlot
  <2>1. CASE k = l
    BY <2>1, Zenon
  <2>2. CASE k # l
    <3>1. k - 1 \in l .. k - 1 /\ k \in 2 .. Levels
      BY <2>2
    <3>2. h[k - 1] = NoSlot
      BY <1>2, <3>1, Zenon
    <3> QED
      BY <1>1, <3>1, <3>2, Zenon DEF HwFollow, HwBelow
  <2> QED
    BY <2>1, <2>2, Zenon
<1>3. \A k \in l .. Levels : (\A j \in l .. k - 1 : j \in S) => k \in S
  BY <1>2, Zenon
<1> HIDE DEF S
<1>4. l .. Levels \subseteq S
  BY <1>1, <1>3, RangeInduction, Zenon
<1> QED
  BY <1>4, Zenon DEF S

\* The hardware's path p up to level k, when h is its walk.
Prefix(h, l) == [j \in 1 .. l |-> h[j]]
Trodden(p, h, k) ==
  \E l \in 1 .. k : /\ p = Prefix(h, l) /\ \A j \in 1 .. l - 1 : h[j] # NoSlot
                    /\ l = k \/ h[l] = NoSlot

Image(h, l) == {h[j] : j \in 1 .. l}

LEMMA PrefixLast ==
  ASSUME NEW h, NEW l \in Nat, l > 0
  PROVE  /\ Last(Prefix(h, l)) = h[l] /\ Range(Prefix(h, l)) = Image(h, l)
         /\ Range(Front(Prefix(h, l))) = Image(h, l - 1)
         /\ Append(Prefix(h, l), h[l + 1]) = Prefix(h, l + 1)
<1> DEFINE X == {h[j] : j \in 1 .. l + 1}
           p == Prefix(h, l)
           q == Prefix(h, l + 1)
<1>1. p \in Seq(X) /\ Len(p) = l /\ DOMAIN p = 1 .. l /\ \A j \in 1 .. l : p[j] = h[j]
  BY DEF Prefix
<1>2. q \in Seq(X) /\ Len(q) = l + 1 /\ \A j \in 1 .. l + 1 : q[j] = h[j]
  BY DEF Prefix
<1>3. h[l + 1] \in X
  OBVIOUS
<1> HIDE DEF p, q, X
<1>4. Last(p) = h[l]
  BY <1>1 DEF Last
<1>5. Range(p) = Image(h, l)
  BY <1>1, Zenon DEF Range, Image
<1>6. Front(p) = [j \in 1 .. l - 1 |-> h[j]]
  <2>1. Front(p) = SubSeq(p, 1, l - 1)
    BY <1>1, Zenon DEF Front
  <2>2. SubSeq(p, 1, l - 1) = [j \in 1 .. l - 1 |-> h[j]]
    BY <1>1
  <2> QED
    BY <2>1, <2>2, Zenon
<1>7. Range(Front(p)) = Image(h, l - 1)
  BY <1>6, Zenon DEF Range, Image
<1>8. Append(p, h[l + 1]) = q
  BY <1>1, <1>2, <1>3
<1> QED
  BY <1>4, <1>5, <1>7, <1>8, Zenon DEF p, q


PathStep(m, p, i) ==
  LET s == Last(p)
  IN IF s = NoSlot THEN p
     ELSE Append(p, IF present(At(m, s)) THEN <<At(m, s).addr, i>> ELSE NoSlot)
PathFollow(g, m, root, v) ==
  /\ g = [k \in 1 .. Len(v) |-> g[k]]
  /\ g[1] = << <<root, v[1]>> >> /\ \A k \in 2 .. Len(v) : g[k] = PathStep(m, g[k - 1], v[k])

LEMMA HwFollowExists ==
  ASSUME NEW v \in Virt, NEW m, NEW root
  PROVE  \E h : HwFollow(h, m, root, v)
<1> DEFINE n == Len(v)
           b == <<root, v[1]>>
           Ok(g, k) == /\ g = [j \in 1 .. n |-> g[j]] /\ g[1] = b
                       /\ \A j \in 2 .. k : g[j] = HwBelow(m, g[j - 1], v[j])
           S == {k \in 1 .. n : \E g : Ok(g, k)}
<1>2. n \in Nat /\ n > 1
  BY Pages, Zenon
<1> HIDE DEF n, b
<1>3. ASSUME NEW k \in 1 .. n, \A j \in 1 .. k - 1 : j \in S PROVE \E g : Ok(g, k)
  <2>1. CASE k = 1
    <3> DEFINE g == [j \in 1 .. n |-> b]
    <3>1. g = [j \in 1 .. n |-> g[j]] /\ g[1] = b /\ 2 .. 1 = {}
      BY <1>2
    <3> HIDE DEF g
    <3>2. Ok(g, k)
      BY <2>1, <3>1, Zenon
    <3> QED
      BY <3>2, Zenon
  <2>2. CASE k # 1
    <3>1. k - 1 \in 1 .. k - 1
      BY <2>2
    <3>2. PICK g : Ok(g, k - 1)
      BY <1>3, <3>1, Zenon
    <3> DEFINE w == HwBelow(m, g[k - 1], v[k])
               h == [j \in 1 .. n |-> IF j = k THEN w ELSE g[j]]
    <3> HIDE DEF w
    <3>3. h = [j \in 1 .. n |-> h[j]] /\ h[1] = g[1] /\ h[k] = w /\ h[k - 1] = g[k - 1]
      BY <1>2, <2>2
    <3>4. \A j \in 2 .. k - 1 : h[j] = g[j] /\ h[j - 1] = g[j - 1]
      BY <1>2
    <3>5. \A j \in 2 .. k : j = k \/ j \in 2 .. k - 1
      OBVIOUS
    <3> HIDE DEF h
    <3>6. \A j \in 2 .. k : h[j] = HwBelow(m, h[j - 1], v[j])
      <4> TAKE j \in 2 .. k
      <4>1. CASE j = k
        BY <3>3, <4>1, Zenon DEF w
      <4>2. CASE j \in 2 .. k - 1
        BY <3>2, <3>4, <4>2, Zenon
      <4> QED
        BY <3>5, <4>1, <4>2, Zenon
    <3>7. Ok(h, k)
      BY <3>2, <3>3, <3>6, Zenon
    <3> QED
      BY <3>7, Zenon
  <2> QED
    BY <2>1, <2>2, Zenon
<1>4. \A k \in 1 .. n : (\A j \in 1 .. k - 1 : j \in S) => k \in S
  BY <1>3, Zenon
<1>5. 1 \in Nat /\ n \in 1 .. n
  BY <1>2
<1>6. 1 .. n \subseteq S
  <2> HIDE DEF S
  <2> QED
    BY <1>2, <1>4, <1>5, RangeInduction, Zenon
<1>7. PICK g : Ok(g, n)
  BY <1>5, <1>6, Zenon
<1>8. HwFollow(g, m, root, v)
  BY <1>7, Zenon DEF HwFollow, n, b
<1> QED
  BY <1>8, ZenonT(40)

LEMMA HwPathRec ==
  ASSUME NEW v \in Virt, NEW m, NEW root
  PROVE  \E g : PathFollow(g, m, root, v) /\ HwPath(m, root, v) = g[Len(v)]
<1> DEFINE n == Len(v)
           b == << <<root, v[1]>> >>
           slot[k \in 1 .. n] ==
             IF k = 1 THEN << <<root, v[1]>> >>
             ELSE LET p == slot[k - 1]
                      s == Last(p)
                  IN IF s = NoSlot THEN p
                     ELSE Append(p, IF present(At(m, s)) THEN <<At(m, s).addr, v[k]>> ELSE NoSlot)
           Ok(g, k) == /\ g = [j \in 1 .. n |-> g[j]] /\ g[1] = b
                       /\ \A j \in 2 .. k : g[j] = PathStep(m, g[j - 1], v[j])
           S == {k \in 1 .. n : \E g : Ok(g, k)}
<1>1. HwPath(m, root, v) = slot[n]
  BY SMTT(40) DEF HwPath
<1>2. n \in Nat /\ n > 1
  BY Pages, Zenon
<1> HIDE DEF n, b
<1>3. ASSUME NEW k \in 1 .. n, \A j \in 1 .. k - 1 : j \in S PROVE \E g : Ok(g, k)
  <2>1. CASE k = 1
    <3> DEFINE g == [j \in 1 .. n |-> b]
    <3>1. g = [j \in 1 .. n |-> g[j]] /\ g[1] = b /\ 2 .. 1 = {}
      BY <1>2
    <3> HIDE DEF g
    <3>2. Ok(g, k)
      BY <2>1, <3>1, Zenon
    <3> QED
      BY <3>2, Zenon
  <2>2. CASE k # 1
    <3>1. k - 1 \in 1 .. k - 1
      BY <2>2
    <3>2. PICK g : Ok(g, k - 1)
      BY <1>3, <3>1, Zenon
    <3> DEFINE w == PathStep(m, g[k - 1], v[k])
               h == [j \in 1 .. n |-> IF j = k THEN w ELSE g[j]]
    <3> HIDE DEF w
    <3>3. h = [j \in 1 .. n |-> h[j]] /\ h[1] = g[1] /\ h[k] = w /\ h[k - 1] = g[k - 1]
      BY <1>2, <2>2
    <3>4. \A j \in 2 .. k - 1 : h[j] = g[j] /\ h[j - 1] = g[j - 1]
      BY <1>2
    <3>5. \A j \in 2 .. k : j = k \/ j \in 2 .. k - 1
      OBVIOUS
    <3> HIDE DEF h
    <3>6. \A j \in 2 .. k : h[j] = PathStep(m, h[j - 1], v[j])
      <4> TAKE j \in 2 .. k
      <4>1. CASE j = k
        BY <3>3, <4>1, Zenon DEF w
      <4>2. CASE j \in 2 .. k - 1
        BY <3>2, <3>4, <4>2, Zenon
      <4> QED
        BY <3>5, <4>1, <4>2, Zenon
    <3>7. Ok(h, k)
      BY <3>2, <3>3, <3>6, Zenon
    <3> QED
      BY <3>7, Zenon
  <2> QED
    BY <2>1, <2>2, Zenon
<1>4. \A k \in 1 .. n : (\A j \in 1 .. k - 1 : j \in S) => k \in S
  BY <1>3, Zenon
<1>5. 1 \in Nat /\ n \in 1 .. n
  BY <1>2
<1>6. 1 .. n \subseteq S
  <2> HIDE DEF S
  <2> QED
    BY <1>2, <1>4, <1>5, RangeInduction, Zenon
<1>7. PICK g : Ok(g, n)
  BY <1>5, <1>6, Zenon
<1>8. \A k \in 1 .. n : k = 1 \/ k \in 2 .. n
  BY <1>2
<1>9. g = [k \in 1 .. n |-> IF k = 1 THEN << <<root, v[1]>> >>
             ELSE LET p == g[k - 1]
                      s == Last(p)
                  IN IF s = NoSlot THEN p
                     ELSE Append(p, IF present(At(m, s)) THEN <<At(m, s).addr, v[k]>> ELSE NoSlot)]
  <2>1. \A k \in 1 .. n : g[k] = IF k = 1 THEN << <<root, v[1]>> >> ELSE PathStep(m, g[k - 1], v[k])
    BY <1>7, <1>8, Zenon DEF b
  <2>2. g = [k \in 1 .. n |-> IF k = 1 THEN << <<root, v[1]>> >> ELSE PathStep(m, g[k - 1], v[k])]
    BY <1>7, <2>1, Zenon
  <2> QED
    BY <2>2, Zenon DEF PathStep
<1>10. slot = [k \in 1 .. n |-> IF k = 1 THEN << <<root, v[1]>> >>
             ELSE LET p == slot[k - 1]
                      s == Last(p)
                  IN IF s = NoSlot THEN p
                     ELSE Append(p, IF present(At(m, s)) THEN <<At(m, s).addr, v[k]>> ELSE NoSlot)]
  BY <1>9, Zenon
<1> HIDE DEF slot
<1>11. slot = [k \in 1 .. n |-> IF k = 1 THEN b ELSE PathStep(m, slot[k - 1], v[k])]
  BY <1>10, Zenon DEF PathStep, b
<1>12. /\ slot = [k \in 1 .. n |-> slot[k]]
       /\ slot[1] = b /\ \A k \in 2 .. n : slot[k] = PathStep(m, slot[k - 1], v[k])
  BY <1>2, <1>11
<1>13. PathFollow(slot, m, root, v)
  BY <1>12, Zenon DEF PathFollow, n, b
<1> QED
  BY <1>1, <1>13, Zenon DEF n

LEMMA HwPathIs ==
  ASSUME NEW v \in Virt, NEW m, NEW root
  PROVE  \E h : HwFollow(h, m, root, v) /\ Trodden(HwPath(m, root, v), h, Levels)
<1>1. PICK h : HwFollow(h, m, root, v)
  BY HwFollowExists, Zenon
<1>2. PICK g : PathFollow(g, m, root, v) /\ HwPath(m, root, v) = g[Len(v)]
  BY HwPathRec, Zenon
<1>3. Len(v) = Levels /\ Levels \in Nat /\ Levels > 1 /\ Levels \in 1 .. Levels /\ 1 \in Nat
  BY Pages
<1> DEFINE S == {k \in 1 .. Levels : Trodden(g[k], h, k)}
<1>4. ASSUME NEW k \in 1 .. Levels, \A j \in 1 .. k - 1 : j \in S PROVE Trodden(g[k], h, k)
  <2>1. CASE k = 1
    <3>1. g[1] = << <<root, v[1]>> >> /\ h[1] = <<root, v[1]>>
      BY <1>1, <1>2, Zenon DEF PathFollow, HwFollow
    <3>2. g[1] = Prefix(h, 1) /\ 1 \in 1 .. 1 /\ 1 .. 1 - 1 = {}
      BY <3>1 DEF Prefix
    <3> QED
      BY <2>1, <3>2, Zenon DEF Trodden
  <2>2. CASE k # 1
    <3> DEFINE i == k - 1
    <3>1. i \in 1 .. k - 1 /\ k \in 2 .. Levels /\ i \in 1 .. Levels /\ i \in Nat /\ i + 1 = k /\ k \in 1 .. k
      BY <1>3, <2>2
    <3>2. h[k] = HwBelow(m, h[i], v[k]) /\ g[k] = PathStep(m, g[i], v[k])
      BY <1>1, <1>2, <1>3, <3>1, Zenon DEF PathFollow, HwFollow
    <3> HIDE DEF i
    <3>3. Trodden(g[i], h, i)
      BY <1>4, <3>1, Zenon
    <3>4. PICK l \in 1 .. i : /\ g[i] = Prefix(h, l) /\ \A j \in 1 .. l - 1 : h[j] # NoSlot
                              /\ l = i \/ h[l] = NoSlot
      BY <3>3, Zenon DEF Trodden
    <3>5. l \in Nat /\ l > 0 /\ l \in 1 .. k
      BY <3>1, <3>4
    <3>6. Last(g[i]) = h[l] /\ Append(g[i], h[l + 1]) = Prefix(h, l + 1)
      BY <3>4, <3>5, PrefixLast, Zenon
    <3>7. CASE h[l] = NoSlot
      <4>1. g[k] = g[i]
        BY <3>2, <3>6, <3>7, Zenon DEF PathStep
      <4> QED
        BY <3>4, <3>5, <3>7, <4>1, Zenon DEF Trodden
    <3>8. CASE h[l] # NoSlot
      <4>1. l = i
        BY <3>4, <3>8, Zenon
      <4>2. g[k] = Append(g[i], IF present(At(m, h[l])) THEN <<At(m, h[l]).addr, v[k]>> ELSE NoSlot)
        BY <3>2, <3>6, <3>8, Zenon DEF PathStep
      <4>3. h[k] = IF present(At(m, h[l])) THEN <<At(m, h[l]).addr, v[k]>> ELSE NoSlot
        <5>1. CASE present(At(m, h[l]))
          BY <3>2, <3>8, <4>1, <5>1, Zenon DEF HwBelow
        <5>2. CASE ~ present(At(m, h[l]))
          BY <3>2, <3>8, <4>1, <5>2, Zenon DEF HwBelow
        <5> QED
          BY <5>1, <5>2, Zenon
      <4>4. g[k] = Append(g[i], h[k])
        BY <4>2, <4>3, Zenon
      <4>5. g[k] = Prefix(h, k)
        BY <3>1, <3>6, <4>1, <4>4, Zenon
      <4>6. \A j \in 1 .. k - 1 : j \in 1 .. l - 1 \/ j = l
        BY <3>1, <3>5, <4>1
      <4>7. \A j \in 1 .. k - 1 : h[j] # NoSlot
        BY <3>4, <3>8, <4>6, Zenon
      <4> QED
        BY <3>1, <4>5, <4>7, Zenon DEF Trodden
    <3> QED
      BY <3>7, <3>8, Zenon
  <2> QED
    BY <2>1, <2>2, Zenon
<1>5. \A k \in 1 .. Levels : (\A j \in 1 .. k - 1 : j \in S) => k \in S
  BY <1>4, Zenon
<1> HIDE DEF S
<1>6. 1 .. Levels \subseteq S
  BY <1>3, <1>5, RangeInduction, Zenon
<1> QED
  BY <1>1, <1>2, <1>3, <1>6, Zenon DEF S

\* What the hardware finds is what is at the end of its walk.
LEMMA HwWalkIs ==
  ASSUME NEW v \in Virt, NEW m, NEW root
  PROVE  \E h : /\ HwFollow(h, m, root, v) /\ HwWalk(m, root, v) = Found(m, h[Levels])
                /\ Trodden(HwPath(m, root, v), h, Levels)
<1>1. PICK h : HwFollow(h, m, root, v) /\ Trodden(HwPath(m, root, v), h, Levels)
  BY HwPathIs, Zenon
<1>2. PICK l \in 1 .. Levels : /\ HwPath(m, root, v) = Prefix(h, l) /\ (l = Levels \/ h[l] = NoSlot)
  BY <1>1, Zenon DEF Trodden
<1>3. l \in Nat /\ l > 0 /\ Levels \in l .. Levels
  BY <1>2, LevelsAre
<1>4. Last(HwPath(m, root, v)) = h[l]
  BY <1>2, <1>3, PrefixLast, Zenon
<1>5. h[l] = h[Levels]
  BY <1>1, <1>2, <1>3, HwLost, Zenon
<1>6. HwSlot(m, root, v) = h[Levels]
  BY <1>4, <1>5, Zenon DEF HwSlot
<1> QED
  BY <1>1, <1>6, Zenon DEF HwWalk, Found


-----------------------------------------------------------------------------
(***************************************************************************)
(* Where the hardware has not been, the code's walk is the hardware's.     *)
(***************************************************************************)
\* The accessed bits of the upper tables are those of the entries in WK.
Seen(m, n, lev, WK) ==
  \A s \in Slots : Upper(s, n, lev) /\ "A" \in At(m, s).flags => s \in WK

LEMMA CleanStep ==
  ASSUME NEW m, NEW n, NEW lev, NEW WK, Seen(m, n, lev, WK), NEW k \in 1 .. Levels, k < Levels,
         NEW s, OnLevel(s, n, lev, k), s \notin WK, NEW i \in Nat
  PROVE  Below(m, s, i) = HwBelow(m, s, i)
<1>1. s \in Slots /\ Upper(s, n, lev)
  BY Zenon DEF OnLevel, Upper
<1>2. "A" \notin At(m, s).flags
  BY <1>1, Zenon DEF Seen
<1>3. i + 0 = i
  OBVIOUS
<1>4. addr(At(m, s), i) = <<At(m, s).addr, i>>
  BY <1>2, <1>3, Zenon DEF addr
<1> QED
  BY <1>4, Zenon DEF Below, HwBelow

LEMMA CleanWalk ==
  ASSUME NEW m, NEW n, NEW lev, Levelled(m, n, lev), NEW WK, Seen(m, n, lev, WK),
         NEW root, root \in Tabs, root < n, lev[root] = 1, NEW v \in Virt,
         NEW g, Follow(g, m, root, v), NEW h, HwFollow(h, m, root, v),
         \A j \in 1 .. Levels - 1 : h[j] = NoSlot \/ h[j] \notin WK
  PROVE  \A k \in 1 .. Levels : g[k] = h[k]
<1> DEFINE S == {k \in 1 .. Levels : g[k] = h[k]}
<1>1. /\ Len(v) = Levels /\ Levels \in Nat /\ 1 \in Nat
      /\ \A k \in 1 .. Levels : v[k] \in Nat
  BY Pages, Sizes
<1>2. \A k \in 1 .. Levels : h[k] = NoSlot \/ OnLevel(h[k], n, lev, k)
  BY HwFollowLevels, Zenon
<1>3. ASSUME NEW k \in 1 .. Levels, \A j \in 1 .. k - 1 : j \in S PROVE g[k] = h[k]
  <2>1. CASE k = 1
    BY <2>1, Zenon DEF Follow, HwFollow
  <2>2. CASE k # 1
    <3> DEFINE i == k - 1
    <3>1. /\ i \in 1 .. k - 1 /\ k \in 2 .. Levels /\ i \in 1 .. Levels /\ i \in 1 .. Levels - 1
          /\ i < Levels
      BY <1>1, <2>2
    <3>2. g[k] = Below(m, g[i], v[k]) /\ h[k] = HwBelow(m, h[i], v[k])
      BY <1>1, <3>1, Zenon DEF Follow, HwFollow
    <3> HIDE DEF i
    <3>3. g[i] = h[i]
      BY <1>3, <3>1, Zenon DEF Image
    <3>4. CASE h[i] = NoSlot
      BY <3>2, <3>3, <3>4, Zenon DEF Below, HwBelow
    <3>5. CASE h[i] # NoSlot
      <4>1. OnLevel(h[i], n, lev, i) /\ h[i] \notin WK
        BY <1>2, <3>1, <3>5, Zenon
      <4>2. v[k] \in Nat /\ i \in 1 .. Levels /\ i < Levels
        BY <1>1, <3>1, Zenon
      <4>3. Below(m, h[i], v[k]) = HwBelow(m, h[i], v[k])
        BY <4>1, <4>2, CleanStep
      <4> QED
        BY <3>2, <3>3, <4>3, Zenon
    <3> QED
      BY <3>4, <3>5, Zenon
  <2> QED
    BY <2>1, <2>2, Zenon
<1>4. \A k \in 1 .. Levels : (\A j \in 1 .. k - 1 : j \in S) => k \in S
  BY <1>3, Zenon
<1> HIDE DEF S
<1>5. 1 .. Levels \subseteq S
  BY <1>1, <1>4, RangeInduction, Zenon
<1> QED
  BY <1>5, Zenon DEF S

LEMMA FrontIs ==
  ASSUME NEW v \in Virt, NEW m, NEW root, NEW h, HwFollow(h, m, root, v),
         Trodden(HwPath(m, root, v), h, Levels)
  PROVE  /\ \A j \in 1 .. Levels - 1 :
              h[j] = NoSlot \/ h[j] \in Range(Front(HwPath(m, root, v)))
         /\ h[Levels] # NoSlot =>
              /\ Range(HwPath(m, root, v)) = Image(h, Levels)
              /\ Range(Front(HwPath(m, root, v))) = Image(h, Levels - 1)
<1>1. PICK l \in 1 .. Levels : /\ HwPath(m, root, v) = Prefix(h, l) /\ (l = Levels \/ h[l] = NoSlot)
  BY Zenon DEF Trodden
<1>2. l \in Nat /\ l > 0 /\ Levels \in l .. Levels /\ Levels \in Nat
  BY <1>1, LevelsAre
<1>3. /\ Range(HwPath(m, root, v)) = Image(h, l)
      /\ Range(Front(HwPath(m, root, v))) = Image(h, l - 1)
  <2>1. /\ Range(Prefix(h, l)) = Image(h, l)
        /\ Range(Front(Prefix(h, l))) = Image(h, l - 1)
    BY <1>2, PrefixLast, Zenon
  <2> QED
    BY <1>1, <2>1, Zenon
<1>4. l = Levels \/ \A k \in l .. Levels : h[k] = NoSlot
  BY <1>1, HwLost, Zenon
<1>5. ASSUME NEW j \in 1 .. Levels - 1
      PROVE  h[j] = NoSlot \/ h[j] \in Range(Front(HwPath(m, root, v)))
  <2>1. CASE j \in l .. Levels
    <3>1. l # Levels
      BY <1>2, <1>5, <2>1
    <3> QED
      BY <1>4, <2>1, <3>1, Zenon
  <2>2. CASE ~ (j \in l .. Levels)
    <3>1. j \in 1 .. l - 1
      BY <1>2, <1>5, <2>2
    <3> QED
      BY <1>3, <3>1, Zenon DEF Image
  <2> QED
    BY <2>1, <2>2, Zenon
<1>6. h[Levels] # NoSlot => l = Levels
  BY <1>2, <1>4, Zenon
<1> QED
  BY <1>3, <1>5, <1>6, Zenon

LEMMA FoundKnown ==
  ASSUME NEW m \in Mems, NEW s, s = NoSlot \/ s \in Slots
  PROVE  /\ s # NoSlot /\ present(At(m, s)) => Found(m, s) = At(m, s) /\ Found(m, s) # Unmapped
         /\ ~ (s # NoSlot /\ present(At(m, s))) => Found(m, s) = Unmapped
<1>1. Unmapped \notin Entries
  BY PagingAssumption, Zenon DEF Entries, AllFlags
<1>2. s # NoSlot => At(m, s) \in Entries
  BY AtType, Zenon
<1> QED
  BY <1>1, <1>2, Zenon DEF Found

LEMMA Agreement ==
  ASSUME NEW m, NEW n, NEW lev, Shape(m, n, lev), NEW WK, Seen(m, n, lev, WK), NEW v \in Virt,
         Range(Front(HwPath(m, Root, v))) \cap WK = {}
  PROVE  LET e == HwWalk(m, Root, v)
         IN /\ translate(m, Root, v) = e
            /\ get_page_flags(m, Root, v) = (IF e = Unmapped THEN {} ELSE e.flags)
<1> DEFINE e == HwWalk(m, Root, v)
<1>1. Levelled(m, n, lev) /\ m \in Mems /\ lev[Root] = 1 /\ n \in 2 .. MaxTables + 1
  BY Zenon DEF Shape, Levelled
<1>2. Root \in Tabs /\ Root < n
  BY <1>1, Sizes
<1>3. PICK h : /\ HwFollow(h, m, Root, v) /\ HwWalk(m, Root, v) = Found(m, h[Levels])
               /\ Trodden(HwPath(m, Root, v), h, Levels)
  BY HwWalkIs, Zenon
<1>4. PICK g : /\ Follow(g, m, Root, v) /\ FindSlot(m, Root, v) = g[Levels]
               /\ translate(m, Root, v) = Found(m, g[Levels])
  BY TranslateIs, Zenon
<1>5. \A j \in 1 .. Levels - 1 : h[j] = NoSlot \/ h[j] \in Range(Front(HwPath(m, Root, v)))
  BY <1>3, FrontIs, Zenon
<1>6. \A j \in 1 .. Levels - 1 : h[j] = NoSlot \/ h[j] \notin WK
  BY <1>5, Zenon
<1>7. Levels \in 1 .. Levels
  BY LevelsAre
<1>8. g[Levels] = h[Levels]
  <2>1. \A k \in 1 .. Levels : g[k] = h[k]
    <3>1. Levelled(m, n, lev) /\ lev[Root] = 1 /\ HwFollow(h, m, Root, v) /\ Follow(g, m, Root, v)
      BY <1>1, <1>3, <1>4, Zenon
    <3> QED
      BY <1>2, <1>6, <3>1, CleanWalk
  <2> QED
    BY <1>7, <2>1, Zenon
<1>9. translate(m, Root, v) = e
  BY <1>3, <1>4, <1>8, Zenon
<1>10. h[Levels] = NoSlot \/ h[Levels] \in Slots
  BY <1>1, <1>2, <1>3, <1>7, HwFollowLevels, ZenonT(40) DEF OnLevel
<1> DEFINE s == h[Levels]
<1>11. FindSlot(m, Root, v) = s /\ e = Found(m, s)
  BY <1>3, <1>4, <1>8, Zenon
<1> HIDE DEF s, e
<1>12. get_page_flags(m, Root, v) = (IF e = Unmapped THEN {} ELSE e.flags)
  <2>1. CASE s # NoSlot /\ present(At(m, s))
    BY <1>1, <1>10, <1>11, <2>1, FoundKnown, Zenon DEF get_page_flags, s
  <2>2. CASE ~ (s # NoSlot /\ present(At(m, s)))
    BY <1>1, <1>10, <1>11, <2>2, FoundKnown, Zenon DEF get_page_flags, s
  <2> QED
    BY <2>1, <2>2, Zenon
<1> QED
  BY <1>9, <1>12, Zenon DEF e


-----------------------------------------------------------------------------
(***************************************************************************)
(* A new table, linked at an entry that pointed nowhere.                   *)
(***************************************************************************)
Linked(m, s, n, f) == Put(m, s, Entry(n, f))
Deeper(lev, n, k) == [lev EXCEPT ![n] = k + 1]
Linkable(m, n, lev, k, s, f) ==
  /\ Shape(m, n, lev) /\ n < MaxTables + 1 /\ k \in 1 .. Levels /\ k < Levels
  /\ OnLevel(s, n, lev, k) /\ ~ present(At(m, s)) /\ f \in SUBSET AllFlags /\ "P" \in f

OneLink(m, s, n, f, M) ==
  /\ m \in Mems /\ n \in Tabs /\ s \in Slots /\ s[1] < n /\ n \in Nat
  /\ M \in Mems /\ At(M, s) = Entry(n, f)
  /\ \A r \in Slots : r # s => At(M, r) = At(m, r)
  /\ \A r \in Slots : r[1] = n => r # s /\ At(m, r) = empty

LEMMA LinkedIs ==
  ASSUME NEW m, NEW n, NEW lev, NEW k, NEW s, NEW f, Linkable(m, n, lev, k, s, f)
  PROVE  OneLink(m, s, n, f, Linked(m, s, n, f))
<1>1. /\ Shape(m, n, lev) /\ n < MaxTables + 1 /\ OnLevel(s, n, lev, k) /\ f \in SUBSET AllFlags
  BY Zenon DEF Linkable
<1>2. /\ m \in Mems /\ n \in 2 .. MaxTables + 1 /\ s \in Slots /\ s[1] < n
      /\ \A r \in Slots : ~ (r[1] < n) => At(m, r) = empty
  BY <1>1, Zenon DEF Shape, Levelled, OnLevel
<1>3. n \in Tabs /\ n \in Nat /\ ~ (n < n)
  BY <1>1, <1>2, Sizes DEF Tabs
<1>4. Entry(n, f) \in Entries
  BY <1>1, <1>3, EntryParts, Zenon
<1>5. /\ Linked(m, s, n, f) \in Mems /\ At(Linked(m, s, n, f), s) = Entry(n, f)
      /\ \A r \in Slots : r # s => At(Linked(m, s, n, f), r) = At(m, r)
  BY <1>2, <1>4, PutIs, ZenonT(40) DEF Linked
<1>6. \A r \in Slots : r[1] = n => r # s /\ At(m, r) = empty
  BY <1>2, <1>3, Zenon
<1> QED
  BY <1>2, <1>3, <1>5, <1>6, Zenon DEF OneLink

LEMMA DeeperIs ==
  ASSUME NEW lev \in [Tabs -> 1 .. Levels], NEW n \in Tabs, NEW k \in 1 .. Levels, k < Levels
  PROVE  /\ Deeper(lev, n, k) \in [Tabs -> 1 .. Levels] /\ Deeper(lev, n, k)[n] = k + 1
         /\ \A t \in Tabs : t < n => Deeper(lev, n, k)[t] = lev[t]
<1>1. k + 1 \in 1 .. Levels /\ n \in Int
  BY LevelsAre DEF Tabs
<1> DEFINE R == 1 .. Levels
           a == k + 1
<1> HIDE DEF R, a
<1>2. /\ [lev EXCEPT ![n] = a] \in [Tabs -> R] /\ [lev EXCEPT ![n] = a][n] = a
      /\ \A t \in Tabs : t # n => [lev EXCEPT ![n] = a][t] = lev[t]
  BY <1>1, Zenon DEF R, a
<1>3. \A t \in Tabs : t < n => t # n
  BY <1>1 DEF Tabs
<1> QED
  BY <1>2, <1>3, Zenon DEF Deeper, R, a

OneUpper(r, s, n, lev, M, L) ==
  /\ r[1] = n => r # s /\ At(M, r) = empty
  /\ r[1] # n => Upper(r, n, lev) /\ L[r[1]] = lev[r[1]]

LEMMA LinkedPoints ==
  ASSUME NEW m, NEW n, NEW lev, NEW k, NEW s, NEW f, Linkable(m, n, lev, k, s, f),
         NEW r \in Slots, Upper(r, n + 1, Deeper(lev, n, k))
  PROVE  OneUpper(r, s, n, lev, Linked(m, s, n, f), Deeper(lev, n, k))
<1>1. /\ lev \in [Tabs -> 1 .. Levels] /\ k \in 1 .. Levels /\ k < Levels
  BY Zenon DEF Linkable, Shape, Levelled
<1> DEFINE M == Linked(m, s, n, f)
<1>0. OneLink(m, s, n, f, M)
  BY LinkedIs, Zenon
<1> HIDE DEF M
<1>2. n \in Tabs /\ n \in Nat
  BY <1>0, Zenon DEF OneLink
<1>3. r[1] \in Tabs /\ r[1] \in Nat
  BY DEF Slots, Tabs
<1>4. r[1] = n => r # s /\ At(M, r) = empty
  BY <1>0, Zenon DEF OneLink
<1>5. r[1] < n + 1 /\ Deeper(lev, n, k)[r[1]] < Levels
  BY Zenon DEF Upper
<1>6. ASSUME r[1] # n PROVE Upper(r, n, lev) /\ Deeper(lev, n, k)[r[1]] = lev[r[1]]
  <2>1. r[1] < n
    BY <1>2, <1>3, <1>5, <1>6
  <2>2. Deeper(lev, n, k)[r[1]] = lev[r[1]]
    <3>1. \A t \in Tabs : t < n => Deeper(lev, n, k)[t] = lev[t]
      BY <1>1, <1>2, DeeperIs, Zenon
    <3> QED
      BY <1>3, <2>1, <3>1, Zenon
  <2> QED
    BY <1>5, <2>1, <2>2, Zenon DEF Upper
<1> QED
  BY <1>4, <1>6, Zenon DEF OneUpper, M

LEMMA LinkedShape ==
  ASSUME NEW m, NEW n, NEW lev, NEW k, NEW s, NEW f, Linkable(m, n, lev, k, s, f)
  PROVE  Shape(Linked(m, s, n, f), n + 1, Deeper(lev, n, k))
<1> DEFINE M == Linked(m, s, n, f)
           L == Deeper(lev, n, k)
           N == n + 1
<1>1. /\ m \in Mems /\ n \in Tabs /\ s \in Slots /\ s[1] < n /\ n \in Nat
      /\ M \in Mems /\ At(M, s) = Entry(n, f)
      /\ \A r \in Slots : r # s => At(M, r) = At(m, r)
      /\ \A r \in Slots : r[1] = n => r # s /\ At(m, r) = empty
  <2>1. OneLink(m, s, n, f, M)
    BY LinkedIs, Zenon
  <2> QED
    BY <2>1, Zenon DEF OneLink
<1>2. /\ Shape(m, n, lev) /\ Levelled(m, n, lev) /\ n < MaxTables + 1 /\ OnLevel(s, n, lev, k)
      /\ lev \in [Tabs -> 1 .. Levels] /\ lev[Root] = 1 /\ k \in 1 .. Levels /\ k < Levels
      /\ n \in 2 .. MaxTables + 1
  BY Zenon DEF Linkable, Shape, Levelled
<1>3. /\ L \in [Tabs -> 1 .. Levels] /\ L[n] = k + 1 /\ \A t \in Tabs : t < n => L[t] = lev[t]
  BY <1>1, <1>2, DeeperIs, Zenon
<1>4. N \in Nat /\ N <= MaxTables + Spare + 1 /\ N \in 2 .. MaxTables + 1 /\ n \in 1 .. N - 1
  BY <1>1, <1>2, Sizes
<1>5. Root \in Tabs /\ Root < n
  BY <1>2, Sizes
<1>6. L[Root] = 1
  BY <1>2, <1>3, <1>5, Zenon
<1>7. ASSUME NEW r \in Slots, Points(M, N, L, r) PROVE r = s \/ (r # s /\ Points(m, n, lev, r) /\ L[r[1]] = lev[r[1]])
  <2>1. Upper(r, n + 1, L) /\ present(At(M, r))
    BY <1>7, Zenon DEF Points
  <2>5. OneUpper(r, s, n, lev, M, L)
    BY <2>1, LinkedPoints, Zenon
  <2> HIDE DEF M, L, N
  <2>2. r[1] # n
    BY <2>1, <2>5, EmptyIs, Zenon DEF OneUpper
  <2>3. Upper(r, n, lev) /\ L[r[1]] = lev[r[1]]
    BY <2>2, <2>5, Zenon DEF OneUpper
  <2>4. r # s => At(M, r) = At(m, r)
    BY <1>1, Zenon
  <2> QED
    BY <2>1, <2>3, <2>4, Zenon DEF Points
<1> HIDE DEF M, L, N
<1>8. At(M, s).addr = n
  BY <1>1, EntryParts, Zenon
<1>9. lev[s[1]] = k /\ L[s[1]] = lev[s[1]]
  <2>1. s[1] \in Tabs
    BY <1>1, Zenon DEF Slots
  <2> QED
    BY <1>1, <1>2, <1>3, <2>1, Zenon DEF OnLevel
<1>10. ASSUME NEW r \in Slots, r # s, Points(m, n, lev, r)
       PROVE  At(M, r).addr = At(m, r).addr /\ At(m, r).addr \in 1 .. n - 1 /\ lev[At(m, r).addr] = lev[r[1]] + 1
  BY <1>1, <1>2, <1>10, Zenon DEF Levelled
<1>11. ASSUME NEW r \in Slots, Points(M, N, L, r)
       PROVE  At(M, r).addr \in 1 .. N - 1 /\ L[At(M, r).addr] = L[r[1]] + 1
  <2>1. CASE r = s
    BY <1>3, <1>4, <1>8, <1>9, <2>1, Zenon
  <2>2. CASE r # s
    <3>1. Points(m, n, lev, r) /\ L[r[1]] = lev[r[1]]
      BY <1>7, <1>11, <2>2, Zenon
    <3> DEFINE a == At(m, r).addr
    <3>2. At(M, r).addr = a /\ a \in 1 .. n - 1 /\ lev[a] = lev[r[1]] + 1
      BY <1>10, <2>2, <3>1, Zenon
    <3> HIDE DEF a
    <3>3. a \in Tabs /\ a < n /\ a \in 1 .. N - 1
      BY <1>1, <3>2, Sizes DEF Tabs, N
    <3> QED
      BY <1>3, <3>1, <3>2, <3>3, Zenon
  <2> QED
    BY <2>1, <2>2, Zenon
<1>12. Levelled(M, N, L)
  BY <1>1, <1>3, <1>4, <1>11, Zenon DEF Levelled
<1>13. ASSUME NEW r \in Slots, ~ (r[1] < N) PROVE At(M, r) = empty
  <2>1. ~ (r[1] < n) /\ r[1] \in Nat
    BY <1>1, <1>13 DEF N, Slots, Tabs
  <2>2. r # s
    BY <1>1, <2>1, Zenon
  <2> QED
    BY <1>1, <1>2, <2>1, <2>2, Zenon DEF Shape
<1>14. ASSUME NEW r \in Slots, NEW q \in Slots, Points(M, N, L, r), Points(M, N, L, q), At(M, r).addr = At(M, q).addr
       PROVE  r = q
  <2>1. \A a \in 1 .. n - 1 : a # n
    BY <1>1
  <2>2. CASE r = s \/ q = s
    BY <1>7, <1>8, <1>10, <1>14, <2>1, <2>2, Zenon
  <2>3. CASE r # s /\ q # s
    <3>1. Points(m, n, lev, r) /\ Points(m, n, lev, q)
      BY <1>7, <1>14, <2>3, Zenon
    <3>2. At(m, r).addr = At(m, q).addr
      BY <1>10, <1>14, <2>3, <3>1, Zenon
    <3> QED
      BY <1>2, <3>1, <3>2, Zenon DEF Shape
  <2> QED
    BY <2>2, <2>3, Zenon
<1>15. Shape(M, N, L)
  <2>1. \A r \in Slots : ~ (r[1] < N) => At(M, r) = empty
    BY <1>13, Zenon
  <2>2. \A r, q \in Slots :
          (Points(M, N, L, r) /\ Points(M, N, L, q) /\ At(M, r).addr = At(M, q).addr) => r = q
    BY <1>14, Zenon
  <2> QED
    BY <1>4, <1>6, <1>12, <2>1, <2>2, Zenon DEF Shape
<1> QED
  BY <1>15, Zenon DEF M, N, L

LEMMA LinkedSeen ==
  ASSUME NEW m, NEW n, NEW lev, NEW k, NEW s, NEW f, Linkable(m, n, lev, k, s, f), "A" \notin f,
         NEW WK, Seen(m, n, lev, WK)
  PROVE  Seen(Linked(m, s, n, f), n + 1, Deeper(lev, n, k), WK)
<1> SUFFICES ASSUME NEW r \in Slots, Upper(r, n + 1, Deeper(lev, n, k)),
                    "A" \in At(Linked(m, s, n, f), r).flags
             PROVE  r \in WK
  BY Zenon DEF Seen
<1> DEFINE M == Linked(m, s, n, f)
<1>5. OneLink(m, s, n, f, M)
  BY LinkedIs, Zenon
<1>6. OneUpper(r, s, n, lev, M, Deeper(lev, n, k))
  BY LinkedPoints, Zenon
<1>7. "A" \in At(M, r).flags
  BY Zenon
<1> HIDE DEF M
<1>1. r # s
  <2>1. At(M, s).flags = f
    BY <1>5, EntryParts, ZenonT(40) DEF OneLink
  <2> QED
    BY <1>7, <2>1, Zenon
<1>2. r[1] # n
  <2>1. "A" \notin empty.flags
    BY EmptyIs, Zenon
  <2> QED
    BY <1>6, <1>7, <2>1, Zenon DEF OneUpper
<1>3. Upper(r, n, lev)
  BY <1>2, <1>6, Zenon DEF OneUpper
<1>4. At(M, r) = At(m, r) /\ "A" \in At(M, r).flags
  BY <1>1, <1>5, <1>7, Zenon DEF OneLink
<1> QED
  BY <1>3, <1>4, Zenon DEF Seen


\* Where walks of the old and of the new tables part, the old one had ended.
Kin(x, y, n) == y = x \/ (x = NoSlot /\ (y = NoSlot \/ (y \in Slots /\ y[1] = n)))

LEMMA LinkedWalk ==
  ASSUME NEW m, NEW n, NEW lev, NEW k, NEW s, NEW f, Linkable(m, n, lev, k, s, f),
         NEW u \in Virt, NEW g, Follow(g, m, Root, u), NEW h, Follow(h, Linked(m, s, n, f), Root, u)
  PROVE  \A j \in 1 .. Levels : Kin(g[j], h[j], n)
<1> DEFINE S == {j \in 1 .. Levels : Kin(g[j], h[j], n)}
           M == Linked(m, s, n, f)
<1>1. /\ Len(u) = Levels /\ Levels \in Nat /\ 1 \in Nat
      /\ \A j \in 1 .. Levels : u[j] \in 0 .. TableSize - Shift - 1
  BY Pages, Zenon
<1>2. /\ m \in Mems /\ n \in Tabs /\ s \in Slots /\ s[1] < n /\ n \in Nat
      /\ M \in Mems /\ At(M, s) = Entry(n, f)
      /\ \A r \in Slots : r # s => At(M, r) = At(m, r)
      /\ \A r \in Slots : r[1] = n => r # s /\ At(m, r) = empty
  <2>1. OneLink(m, s, n, f, M)
    BY LinkedIs, Zenon
  <2> QED
    BY <2>1, Zenon DEF OneLink
<1>3. Levelled(m, n, lev) /\ lev[Root] = 1 /\ n \in 2 .. MaxTables + 1 /\ ~ present(At(m, s)) /\ "P" \in f
  BY Zenon DEF Linkable, Shape
<1>4. Root \in Tabs /\ Root < n
  BY <1>3, Sizes
<1>5. \A j \in 1 .. Levels : g[j] = NoSlot \/ g[j] \in Slots
  BY <1>3, <1>4, FollowLevels, ZenonT(40) DEF OnLevel
<1>6. Follow(h, M, Root, u)
  BY Zenon
<1> HIDE DEF M
<1>7. ASSUME NEW j \in 1 .. Levels, \A i \in 1 .. j - 1 : i \in S PROVE Kin(g[j], h[j], n)
  <2>1. CASE j = 1
    BY <1>6, <2>1, Zenon DEF Follow, Kin
  <2>2. CASE j # 1
    <3> DEFINE i == j - 1
    <3>1. i \in 1 .. j - 1 /\ j \in 2 .. Levels /\ i \in 1 .. Levels
      BY <1>1, <2>2
    <3>2. g[j] = Below(m, g[i], u[j]) /\ h[j] = Below(M, h[i], u[j])
      BY <1>1, <1>6, <3>1, Zenon DEF Follow
    <3> HIDE DEF i
    <3>3. Kin(g[i], h[i], n)
      BY <1>7, <3>1, Zenon
    <3>4. CASE g[i] = NoSlot /\ h[i] = NoSlot
      BY <3>2, <3>4, Zenon DEF Below, Kin
    <3>5. CASE h[i] = g[i] /\ g[i] = s
      <4>1. s # NoSlot
        BY <1>2, NoSlotIsNone, Zenon
      <4>2. g[j] = NoSlot
        BY <1>3, <3>2, <3>5, Zenon DEF Below
      <4>3. Entry(n, f).addr = n /\ Entry(n, f).flags = f /\ present(Entry(n, f))
        <5>1. Entry(n, f).addr = n /\ Entry(n, f).flags = f
          BY EntryParts, Zenon
        <5> QED
          BY <1>3, <5>1, Zenon DEF present
      <4>4. h[j] = addr(Entry(n, f), u[j])
        BY <1>2, <3>2, <3>5, <4>1, <4>3, Zenon DEF Below
      <4>5. addr(Entry(n, f), u[j]) \in {<<n, u[j] + Shift>>, <<n, u[j] + 0>>}
        BY <4>3, Zenon DEF addr
      <4>6. u[j] + Shift \in Index /\ u[j] + 0 \in Index
        BY <1>1, Sizes, SMTT(40) DEF Index
      <4>7. h[j] \in Slots /\ h[j][1] = n
        BY <1>2, <4>4, <4>5, <4>6 DEF Slots
      <4> QED
        BY <4>2, <4>7, Zenon DEF Kin
    <3>6. CASE h[i] = g[i] /\ g[i] # s /\ g[i] # NoSlot
      <4>1. At(M, g[i]) = At(m, g[i])
        BY <1>2, <1>5, <3>1, <3>6, Zenon
      <4> QED
        BY <3>2, <3>6, <4>1, Zenon DEF Below, Kin
    <3>7. CASE g[i] = NoSlot /\ h[i] \in Slots /\ h[i][1] = n
      <4>1. At(M, h[i]) = empty
        BY <1>2, <3>7, Zenon
      <4> QED
        BY <3>2, <3>7, <4>1, EmptyIs, Zenon DEF Below, Kin
    <3> QED
      BY <3>3, <3>4, <3>5, <3>6, <3>7, Zenon DEF Kin
  <2> QED
    BY <2>1, <2>2, Zenon
<1>8. \A j \in 1 .. Levels : (\A i \in 1 .. j - 1 : i \in S) => j \in S
  BY <1>7, Zenon
<1> HIDE DEF S
<1>9. 1 .. Levels \subseteq S
  BY <1>1, <1>8, RangeInduction, Zenon
<1> QED
  BY <1>9, Zenon DEF S

LEMMA LinkedTranslate ==
  ASSUME NEW m, NEW n, NEW lev, NEW k, NEW s, NEW f, Linkable(m, n, lev, k, s, f), NEW u \in Virt
  PROVE  translate(Linked(m, s, n, f), Root, u) = translate(m, Root, u)
<1> DEFINE M == Linked(m, s, n, f)
<1>1. PICK g : Follow(g, m, Root, u) /\ translate(m, Root, u) = Found(m, g[Levels])
  BY TranslateIs, Zenon
<1>2. PICK h : Follow(h, M, Root, u) /\ translate(M, Root, u) = Found(M, h[Levels])
  BY TranslateIs, Zenon
<1>3. Levels \in 1 .. Levels /\ Levels \in Nat
  BY LevelsAre
<1>4. Kin(g[Levels], h[Levels], n)
  BY <1>1, <1>2, <1>3, LinkedWalk, Zenon
<1>5. /\ \A r \in Slots : r # s => At(M, r) = At(m, r)
      /\ \A r \in Slots : r[1] = n => r # s /\ At(m, r) = empty
  <2>1. OneLink(m, s, n, f, M)
    BY LinkedIs, Zenon
  <2> QED
    BY <2>1, Zenon DEF OneLink
<1>6. /\ Levelled(m, n, lev) /\ lev[Root] = 1 /\ n \in 2 .. MaxTables + 1
      /\ lev[s[1]] = k /\ k < Levels /\ k \in 1 .. Levels
  BY Zenon DEF Linkable, Shape, OnLevel
<1>7. Root \in Tabs /\ Root < n
  BY <1>6, Sizes
<1>8. g[Levels] = NoSlot \/ OnLevel(g[Levels], n, lev, Levels)
  BY <1>1, <1>3, <1>6, <1>7, FollowLevels, Zenon
<1>9. k # Levels
  BY <1>3, <1>6
<1>10. g[Levels] = NoSlot \/ (g[Levels] \in Slots /\ g[Levels] # s)
  BY <1>6, <1>8, <1>9, Zenon DEF OnLevel
<1> HIDE DEF M
<1>11. CASE h[Levels] = g[Levels]
  <2>1. g[Levels] = NoSlot \/ At(M, g[Levels]) = At(m, g[Levels])
    BY <1>5, <1>10, Zenon
  <2>2. Found(M, g[Levels]) = Found(m, g[Levels])
    BY <2>1, Zenon DEF Found
  <2> QED
    BY <1>1, <1>2, <1>11, <2>2, Zenon DEF M
<1>12. CASE g[Levels] = NoSlot /\ h[Levels] = NoSlot
  BY <1>1, <1>2, <1>12, Zenon DEF Found, M
<1>13. CASE g[Levels] = NoSlot /\ h[Levels] \in Slots /\ h[Levels][1] = n
  <2>1. ~ present(At(M, h[Levels]))
    BY <1>5, <1>13, EmptyIs, Zenon
  <2> QED
    BY <1>1, <1>2, <1>13, <2>1, Zenon DEF Found, M
<1> QED
  BY <1>4, <1>11, <1>12, <1>13, Zenon DEF Kin, M


-----------------------------------------------------------------------------
(***************************************************************************)
(* An entry of the last level changes.                                     *)
(***************************************************************************)
\* Slots on the last level belong to one page each, until A bits are set.
LEMMA OneSlotOnePage ==
  ASSUME NEW m, NEW n, NEW lev, Shape(m, n, lev), Seen(m, n, lev, {}),
         NEW u \in Virt, NEW g, Follow(g, m, Root, u), NEW v \in Virt, NEW h, Follow(h, m, Root, v),
         g[Levels] = h[Levels], g[Levels] # NoSlot
  PROVE  u = v
<1> DEFINE P(k) == g[k] = h[k] /\ g[k] # NoSlot => \A j \in 1 .. k : u[j] = v[j]
           S == {k \in 1 .. Levels : P(k)}
<1>1. /\ Len(u) = Levels /\ Len(v) = Levels /\ Levels \in Nat /\ 1 \in Nat /\ Levels \in 1 .. Levels
      /\ \A k \in 1 .. Levels : u[k] \in Nat /\ v[k] \in Nat
  BY Pages, Sizes
<1>2. Levelled(m, n, lev) /\ lev[Root] = 1 /\ n \in 2 .. MaxTables + 1
  BY Zenon DEF Shape
<1>3. Root \in Tabs /\ Root < n
  BY <1>2, Sizes
<1>4. /\ \A k \in 1 .. Levels : g[k] = NoSlot \/ OnLevel(g[k], n, lev, k)
      /\ \A k \in 1 .. Levels : h[k] = NoSlot \/ OnLevel(h[k], n, lev, k)
  BY <1>2, <1>3, FollowLevels, Zenon
<1>5. ASSUME NEW k \in 1 .. Levels, \A j \in 1 .. k - 1 : j \in S, g[k] = h[k], g[k] # NoSlot
      PROVE  \A j \in 1 .. k : u[j] = v[j]
  <2>1. CASE k = 1
    <3>1. <<Root, u[1]>> = <<Root, v[1]>>
      BY <1>5, <2>1, Zenon DEF Follow
    <3>2. u[1] = v[1]
      BY <3>1, Zenon
    <3> QED
      BY <2>1, <3>2
  <2>2. CASE k # 1
    <3> DEFINE i == k - 1
    <3>1. i \in 1 .. k - 1 /\ k \in 2 .. Levels /\ i \in 1 .. Levels /\ i < Levels
      BY <1>1, <2>2
    <3>2. g[k] = Below(m, g[i], u[k]) /\ h[k] = Below(m, h[i], v[k])
      BY <1>1, <3>1, Zenon DEF Follow
    <3>3. \A j \in 1 .. k : j \in 1 .. i \/ j = k
      OBVIOUS
    <3> HIDE DEF i
    <3>4. /\ g[i] # NoSlot /\ present(At(m, g[i])) /\ h[i] # NoSlot /\ present(At(m, h[i]))
      BY <1>5, <3>2, Zenon DEF Below
    <3>5. OnLevel(g[i], n, lev, i) /\ OnLevel(h[i], n, lev, i)
      BY <1>4, <3>1, <3>4, Zenon
    <3>6. g[i] \notin {} /\ h[i] \notin {} /\ u[k] \in Nat /\ v[k] \in Nat
      BY <1>1, <1>5, Zenon
    <3>7. Below(m, g[i], u[k]) = HwBelow(m, g[i], u[k]) /\ Below(m, h[i], v[k]) = HwBelow(m, h[i], v[k])
      BY <3>1, <3>5, <3>6, CleanStep
    <3>8. <<At(m, g[i]).addr, u[k]>> = <<At(m, h[i]).addr, v[k]>>
      BY <1>5, <3>2, <3>4, <3>7, Zenon DEF HwBelow
    <3>9. At(m, g[i]).addr = At(m, h[i]).addr /\ u[k] = v[k]
      BY <3>8, Zenon
    <3>10. /\ Points(m, n, lev, g[i]) /\ Points(m, n, lev, h[i]) /\ g[i] \in Slots /\ h[i] \in Slots
      BY <3>1, <3>4, <3>5, Zenon DEF Points, Upper, OnLevel
    <3>11. g[i] = h[i]
      BY <3>9, <3>10, Zenon DEF Shape
    <3>12. \A j \in 1 .. i : u[j] = v[j]
      BY <1>5, <3>1, <3>4, <3>11, Zenon
    <3> QED
      BY <3>3, <3>9, <3>12, Zenon
  <2> QED
    BY <2>1, <2>2, Zenon
<1>6. \A k \in 1 .. Levels : (\A j \in 1 .. k - 1 : j \in S) => k \in S
  BY <1>5, Zenon
<1>7. 1 .. Levels \subseteq S
  <2> HIDE DEF S
  <2> QED
    BY <1>1, <1>6, RangeInduction, Zenon
<1>8. \A j \in 1 .. Levels : u[j] = v[j]
  BY <1>1, <1>7, Zenon
<1> QED
  BY <1>8, SamePage, Zenon

LEMMA LeafShape ==
  ASSUME NEW m, NEW n, NEW lev, Shape(m, n, lev), NEW s, OnLevel(s, n, lev, Levels),
         NEW e \in Entries, NEW WK, Seen(m, n, lev, WK)
  PROVE  Shape(Put(m, s, e), n, lev) /\ Seen(Put(m, s, e), n, lev, WK)
<1> DEFINE M == Put(m, s, e)
<1>1. m \in Mems /\ s \in Slots /\ Levelled(m, n, lev) /\ s[1] < n /\ lev[s[1]] = Levels
  BY Zenon DEF Shape, Levelled, OnLevel
<1>2. M \in Mems /\ \A r \in Slots : r # s => At(M, r) = At(m, r)
  BY <1>1, PutIs, ZenonT(40)
<1> HIDE DEF M
<1>3. ~ (Levels < Levels)
  BY LevelsAre
<1>4. \A r \in Slots : Upper(r, n, lev) => At(M, r) = At(m, r)
  BY <1>1, <1>2, <1>3, Zenon DEF Upper
<1>5. \A r \in Slots : Points(M, n, lev, r) => Points(m, n, lev, r) /\ At(M, r) = At(m, r)
  BY <1>4, Zenon DEF Points
<1>6. Levelled(M, n, lev)
  <2>1. \A r \in Slots : Points(M, n, lev, r) =>
       At(M, r).addr \in 1 .. n - 1 /\ lev[At(M, r).addr] = lev[r[1]] + 1
    BY <1>1, <1>5, Zenon DEF Levelled
  <2> QED
    BY <1>1, <1>2, <2>1, Zenon DEF Levelled
<1>7. \A r \in Slots : ~ (r[1] < n) => At(M, r) = empty
  BY <1>1, <1>2, Zenon DEF Shape
<1>8. \A r, q \in Slots :
       (Points(M, n, lev, r) /\ Points(M, n, lev, q) /\ At(M, r).addr = At(M, q).addr) => r = q
  BY <1>5, Zenon DEF Shape
<1>9. Shape(M, n, lev)
  BY <1>6, <1>7, <1>8, Zenon DEF Shape
<1>10. Seen(M, n, lev, WK)
  BY <1>4, Zenon DEF Seen
<1> QED
  BY <1>9, <1>10, Zenon DEF M

LEMMA LeafWalk ==
  ASSUME NEW m, NEW n, NEW lev, Shape(m, n, lev), NEW s, OnLevel(s, n, lev, Levels),
         NEW e \in Entries, NEW u \in Virt, NEW g, Follow(g, m, Root, u)
  PROVE  Follow(g, Put(m, s, e), Root, u)
<1> DEFINE M == Put(m, s, e)
<1>1. m \in Mems /\ s \in Slots /\ Levelled(m, n, lev) /\ lev[s[1]] = Levels /\ lev[Root] = 1
      /\ n \in 2 .. MaxTables + 1
  BY Zenon DEF Shape, Levelled, OnLevel
<1>2. \A r \in Slots : r # s => At(M, r) = At(m, r)
  BY <1>1, PutIs, ZenonT(40)
<1> HIDE DEF M
<1>3. Root \in Tabs /\ Root < n
  BY <1>1, Sizes
<1>4. Len(u) = Levels
  BY Pages, Zenon
<1>5. \A k \in 1 .. Levels : g[k] = NoSlot \/ OnLevel(g[k], n, lev, k)
  BY <1>1, <1>3, FollowLevels, Zenon
<1>6. ASSUME NEW k \in 2 .. Levels PROVE g[k] = Below(M, g[k - 1], u[k])
  <2> DEFINE i == k - 1
  <2>1. i \in 1 .. Levels /\ i # Levels
    BY <1>6, LevelsAre
  <2>2. g[k] = Below(m, g[i], u[k])
    BY <1>4, <1>6, Zenon DEF Follow
  <2> HIDE DEF i
  <2>3. g[i] = NoSlot \/ At(M, g[i]) = At(m, g[i])
    BY <1>1, <1>2, <1>5, <2>1, Zenon DEF OnLevel
  <2>4. Below(M, g[i], u[k]) = Below(m, g[i], u[k])
    BY <2>3, Zenon DEF Below
  <2> QED
    BY <2>2, <2>4, Zenon DEF i
<1> QED
  BY <1>4, <1>6, Zenon DEF Follow, M


-----------------------------------------------------------------------------
(***************************************************************************)
(* The invariant, and the steps that keep it.                              *)
(***************************************************************************)
Given(e) == IF present(e) THEN e ELSE Unmapped
Maps(m, w) == \A u \in Virt : translate(m, Root, u) = w[u]
Good(m, n, WK, w) ==
  \E lev : Shape(m, n, lev) /\ Seen(m, n, lev, WK) /\ (WK = {} => Maps(m, w))

LEMMA LeafTranslate ==
  ASSUME NEW m, NEW n, NEW lev, Shape(m, n, lev), Seen(m, n, lev, {}),
         NEW v \in Virt, FindSlot(m, Root, v) # NoSlot, NEW e \in Entries, NEW u \in Virt
  PROVE  /\ u = v => translate(Put(m, FindSlot(m, Root, v), e), Root, u) = Given(e)
         /\ u # v => translate(Put(m, FindSlot(m, Root, v), e), Root, u) = translate(m, Root, u)
<1> DEFINE s == FindSlot(m, Root, v)
           M == Put(m, s, e)
<1>1. PICK g : Follow(g, m, Root, v) /\ s = g[Levels]
  BY TranslateIs, Zenon
<1>2. PICK h : Follow(h, m, Root, u) /\ translate(m, Root, u) = Found(m, h[Levels])
  BY TranslateIs, Zenon
<1>3. s # NoSlot
  BY Zenon
<1> HIDE DEF s
<1>4. Levelled(m, n, lev) /\ lev[Root] = 1 /\ n \in 2 .. MaxTables + 1 /\ m \in Mems
  BY Zenon DEF Shape, Levelled
<1>5. Root \in Tabs /\ Root < n /\ Levels \in 1 .. Levels
  BY <1>4, Sizes, LevelsAre
<1>6. OnLevel(s, n, lev, Levels)
  BY <1>1, <1>3, <1>4, <1>5, FollowLevels, Zenon
<1>7. h[Levels] = NoSlot \/ h[Levels] \in Slots
  BY <1>2, <1>4, <1>5, FollowLevels, ZenonT(40) DEF OnLevel
<1>8. s \in Slots
  BY <1>6, Zenon DEF OnLevel
<1>9. Follow(h, M, Root, u)
  BY <1>2, <1>6, LeafWalk, Zenon
<1>10. At(M, s) = e /\ \A r \in Slots : r # s => At(M, r) = At(m, r)
  BY <1>4, <1>8, PutIs, ZenonT(40)
<1> HIDE DEF M
<1>11. PICK q : Follow(q, M, Root, u) /\ translate(M, Root, u) = Found(M, q[Levels])
  BY TranslateIs, Zenon
<1>12. q = h
  BY <1>9, <1>11, FollowUnique, Zenon
<1>13. translate(M, Root, u) = Found(M, h[Levels])
  BY <1>11, <1>12, Zenon
<1>14. ASSUME u = v PROVE translate(M, Root, u) = Given(e)
  <2>1. h = g
    BY <1>1, <1>2, <1>14, FollowUnique, Zenon
  <2>2. h[Levels] = s
    BY <1>1, <2>1, Zenon
  <2>3. Found(M, s) = Given(e)
    BY <1>3, <1>10, Zenon DEF Found, Given
  <2> QED
    BY <1>13, <2>2, <2>3, Zenon
<1>15. ASSUME u # v PROVE translate(M, Root, u) = translate(m, Root, u)
  <2>1. h[Levels] # s
    BY <1>1, <1>2, <1>3, <1>15, OneSlotOnePage, Zenon
  <2>2. h[Levels] = NoSlot \/ At(M, h[Levels]) = At(m, h[Levels])
    BY <1>7, <1>10, <2>1, Zenon
  <2>3. Found(M, h[Levels]) = Found(m, h[Levels])
    BY <2>2, Zenon DEF Found
  <2> QED
    BY <1>2, <1>13, <2>3, Zenon
<1> QED
  BY <1>14, <1>15, Zenon DEF M, s

LEMMA LeafGood ==
  ASSUME NEW m, NEW n, NEW WK, NEW w, Good(m, n, WK, w), w = [u \in Virt |-> w[u]],
         NEW v \in Virt, FindSlot(m, Root, v) # NoSlot, NEW e \in Entries
  PROVE  Good(Put(m, FindSlot(m, Root, v), e), n, WK, [w EXCEPT ![v] = Given(e)])
<1> DEFINE s == FindSlot(m, Root, v)
           M == Put(m, s, e)
           x == [w EXCEPT ![v] = Given(e)]
<1>1. PICK lev : Shape(m, n, lev) /\ Seen(m, n, lev, WK) /\ (WK = {} => Maps(m, w))
  BY Zenon DEF Good
<1>2. PICK g : Follow(g, m, Root, v) /\ s = g[Levels]
  BY TranslateIs, Zenon
<1>3. Levelled(m, n, lev) /\ lev[Root] = 1 /\ n \in 2 .. MaxTables + 1
  BY <1>1, Zenon DEF Shape
<1>4. Root \in Tabs /\ Root < n /\ Levels \in 1 .. Levels
  BY <1>3, Sizes, LevelsAre
<1>5. OnLevel(s, n, lev, Levels)
  BY <1>2, <1>3, <1>4, FollowLevels, Zenon
<1>6. Shape(M, n, lev) /\ Seen(M, n, lev, WK)
  BY <1>1, <1>5, LeafShape, Zenon
<1>7. x[v] = Given(e) /\ \A u \in Virt : u # v => x[u] = w[u]
  <2> HIDE DEF Given
  <2> DEFINE c == Given(e)
  <2> HIDE DEF c
  <2>1. [w EXCEPT ![v] = c][v] = c /\ \A u \in Virt : u # v => [w EXCEPT ![v] = c][u] = w[u]
    BY Zenon
  <2> QED
    BY <2>1, Zenon DEF c
<1>8. ASSUME WK = {} PROVE Maps(M, x)
  <2>1. Seen(m, n, lev, {}) /\ Maps(m, w)
    BY <1>1, <1>8, Zenon
  <2>2. ASSUME NEW u \in Virt
        PROVE  (u = v => translate(M, Root, u) = Given(e)) /\ (u # v => translate(M, Root, u) = translate(m, Root, u))
    BY <1>1, <2>1, LeafTranslate, ZenonT(40)
  <2> HIDE DEF M, x
  <2>3. ASSUME NEW u \in Virt PROVE translate(M, Root, u) = x[u]
    BY <1>7, <2>1, <2>2, Zenon DEF Maps
  <2> QED
    BY <2>3, Zenon DEF Maps
<1> HIDE DEF M, x
<1>9. Good(M, n, WK, x)
  BY <1>6, <1>8, Zenon DEF Good
<1> QED
  BY <1>9, Zenon DEF M, x, s


-----------------------------------------------------------------------------
(***************************************************************************)
(* map_page: tables are made on the way down, then the entry is written.   *)
(***************************************************************************)
DownFollow(g, m, n, v) ==
  /\ g = [k \in 1 .. Len(v) |-> g[k]]
  /\ g[1] = Walk(m, n, <<Root, v[1]>>) /\ \A k \in 2 .. Len(v) : g[k] = Descend(g[k - 1], v[k])
Finish(d, phys, flags) ==
  Walk(Put(d.mem, d.slot, Leaf(At(d.mem, d.slot), phys, flags)), d.next, d.slot)

LEMMA AfterMapIs ==
  ASSUME NEW v \in Virt, NEW m, NEW n, NEW phys, NEW flags
  PROVE  \E g : /\ DownFollow(g, m, n, v)
                /\ AfterMap(m, n, v, phys, flags) = Finish(g[Len(v)], phys, flags)
<1> DEFINE N == Len(v)
           b == Walk(m, n, <<Root, v[1]>>)
           slot[k \in 1 .. N] ==
             IF k = 1 THEN Walk(m, n, <<Root, v[1]>>) ELSE Descend(slot[k - 1], v[k])
           Ok(g, k) == /\ g = [j \in 1 .. N |-> g[j]] /\ g[1] = b
                       /\ \A j \in 2 .. k : g[j] = Descend(g[j - 1], v[j])
           S == {k \in 1 .. N : \E g : Ok(g, k)}
<1>1. AfterMap(m, n, v, phys, flags) = Finish(slot[N], phys, flags)
  BY Zenon DEF AfterMap, Finish
<1>2. N \in Nat /\ N > 1
  BY Pages, Zenon
<1> HIDE DEF N, b
<1>3. ASSUME NEW k \in 1 .. N, \A j \in 1 .. k - 1 : j \in S PROVE \E g : Ok(g, k)
  <2>1. CASE k = 1
    <3> DEFINE g == [j \in 1 .. N |-> b]
    <3>1. g = [j \in 1 .. N |-> g[j]] /\ g[1] = b /\ 2 .. 1 = {}
      BY <1>2
    <3> HIDE DEF g
    <3>2. Ok(g, k)
      BY <2>1, <3>1, Zenon
    <3> QED
      BY <3>2, Zenon
  <2>2. CASE k # 1
    <3>1. k - 1 \in 1 .. k - 1
      BY <2>2
    <3>2. PICK g : Ok(g, k - 1)
      BY <1>3, <3>1, Zenon
    <3> DEFINE w == Descend(g[k - 1], v[k])
               h == [j \in 1 .. N |-> IF j = k THEN w ELSE g[j]]
    <3> HIDE DEF w
    <3>3. h = [j \in 1 .. N |-> h[j]] /\ h[1] = g[1] /\ h[k] = w /\ h[k - 1] = g[k - 1]
      BY <1>2, <2>2
    <3>4. \A j \in 2 .. k - 1 : h[j] = g[j] /\ h[j - 1] = g[j - 1]
      BY <1>2
    <3>5. \A j \in 2 .. k : j = k \/ j \in 2 .. k - 1
      OBVIOUS
    <3> HIDE DEF h
    <3>6. \A j \in 2 .. k : h[j] = Descend(h[j - 1], v[j])
      <4> TAKE j \in 2 .. k
      <4>1. CASE j = k
        BY <3>3, <4>1, Zenon DEF w
      <4>2. CASE j \in 2 .. k - 1
        BY <3>2, <3>4, <4>2, Zenon
      <4> QED
        BY <3>5, <4>1, <4>2, Zenon
    <3>7. Ok(h, k)
      BY <3>2, <3>3, <3>6, Zenon
    <3> QED
      BY <3>7, Zenon
  <2> QED
    BY <2>1, <2>2, Zenon
<1>4. \A k \in 1 .. N : (\A j \in 1 .. k - 1 : j \in S) => k \in S
  BY <1>3, Zenon
<1>5. 1 \in Nat /\ N \in 1 .. N
  BY <1>2
<1>6. 1 .. N \subseteq S
  <2> HIDE DEF S
  <2> QED
    BY <1>2, <1>4, <1>5, RangeInduction, Zenon
<1>7. PICK g : Ok(g, N)
  BY <1>5, <1>6, Zenon
<1>8. \A k \in 1 .. N : k = 1 \/ k \in 2 .. N
  BY <1>2
<1>9. g = [k \in 1 .. N |-> IF k = 1 THEN Walk(m, n, <<Root, v[1]>>) ELSE Descend(g[k - 1], v[k])]
  <2>1. \A k \in 1 .. N : g[k] = IF k = 1 THEN Walk(m, n, <<Root, v[1]>>) ELSE Descend(g[k - 1], v[k])
    BY <1>7, <1>8, Zenon DEF b
  <2>2. g = [k \in 1 .. N |-> IF k = 1 THEN Walk(m, n, <<Root, v[1]>>) ELSE Descend(g[k - 1], v[k])]
    BY <1>7, <2>1, Zenon
  <2> QED
    BY <2>2, Zenon
<1>10. slot = [k \in 1 .. N |-> IF k = 1 THEN Walk(m, n, <<Root, v[1]>>) ELSE Descend(slot[k - 1], v[k])]
  BY <1>9, Zenon
<1> HIDE DEF slot
<1>11. slot = [k \in 1 .. N |-> IF k = 1 THEN b ELSE Descend(slot[k - 1], v[k])]
  BY <1>10, Zenon DEF b
<1>12. /\ slot = [k \in 1 .. N |-> slot[k]]
       /\ slot[1] = b /\ \A k \in 2 .. N : slot[k] = Descend(slot[k - 1], v[k])
  BY <1>2, <1>11, SMTT(40)
<1>13. DownFollow(slot, m, n, v)
  BY <1>12, Zenon DEF DownFollow, N, b
<1> QED
  BY <1>1, <1>13, Zenon DEF N


\* Where a walk of map_page for page v stands at level k.
Reached(M, N, s, k, v, WK, w) ==
  \E lev : /\ Shape(M, N, lev) /\ Seen(M, N, lev, WK) /\ OnLevel(s, N, lev, k)
           /\ WK = {} => Maps(M, w)
           /\ \E h : Follow(h, M, Root, v) /\ h[k] = s
Descended(d, k, v, WK, w) ==
  d.next \in Nat /\ (d.next <= MaxTables + 1 => Reached(d.mem, d.next, d.slot, k, v, WK, w))

LEMMA WalkParts ==
  ASSUME NEW m, NEW n, NEW s
  PROVE  Walk(m, n, s).mem = m /\ Walk(m, n, s).next = n /\ Walk(m, n, s).slot = s
BY Zenon DEF Walk

LEMMA DescendedWalk ==
  ASSUME NEW m, NEW n \in Nat, NEW s, NEW k, NEW v, NEW WK, NEW w,
         n <= MaxTables + 1 => Reached(m, n, s, k, v, WK, w)
  PROVE  Descended(Walk(m, n, s), k, v, WK, w)
BY WalkParts DEF Descended

LEMMA LinkFlags ==
  ASSUME NEW e \in Entries
  PROVE  LET f == (e.flags \cap Low) \cup {"P", "W"}
         IN f \in SUBSET AllFlags /\ "P" \in f /\ "A" \notin f
BY Zenon DEF AllFlags, Low, High

LEMMA ReachedOld ==
  ASSUME NEW M, NEW N, NEW s, NEW k \in 1 .. Levels, k < Levels, NEW v \in Virt, NEW WK, NEW w,
         Reached(M, N, s, k, v, WK, w), present(At(M, s))
  PROVE  Reached(M, N, addr(At(M, s), v[k + 1]), k + 1, v, WK, w)
<1>1. PICK lev : /\ Shape(M, N, lev) /\ Seen(M, N, lev, WK) /\ OnLevel(s, N, lev, k)
                 /\ WK = {} => Maps(M, w)
                 /\ \E h : Follow(h, M, Root, v) /\ h[k] = s
  BY Zenon DEF Reached
<1>2. PICK h : Follow(h, M, Root, v) /\ h[k] = s
  BY <1>1, Zenon
<1> DEFINE j == k + 1
<1>3. /\ Len(v) = Levels /\ Levels \in Nat /\ j \in 2 .. Levels /\ j - 1 = k
      /\ v[j] \in 0 .. TableSize - Shift - 1
  BY Pages
<1>4. Levelled(M, N, lev)
  BY <1>1, Zenon DEF Shape
<1>5. OnLevel(addr(At(M, s), v[j]), N, lev, j)
  BY <1>1, <1>3, <1>4, StepDown, Zenon
<1> HIDE DEF j
<1>6. s # NoSlot
  BY <1>1, NoSlotIsNone, Zenon DEF OnLevel
<1>7. h[j] = Below(M, s, v[j])
  <2>1. h[j] = Below(M, h[j - 1], v[j])
    BY <1>2, <1>3, Zenon DEF Follow
  <2> QED
    BY <1>2, <1>3, <2>1, Zenon
<1>8. h[j] = addr(At(M, s), v[j])
  BY <1>6, <1>7, Zenon DEF Below
<1>9. Reached(M, N, addr(At(M, s), v[j]), j, v, WK, w)
  BY <1>1, <1>2, <1>5, <1>8, Zenon DEF Reached
<1> QED
  BY <1>9, Zenon DEF j

LEMMA ReachedNew ==
  ASSUME NEW M, NEW N, NEW s, NEW k \in 1 .. Levels, k < Levels, NEW v \in Virt, NEW WK, NEW w,
         Reached(M, N, s, k, v, WK, w), ~ present(At(M, s)), N < MaxTables + 1,
         NEW f \in SUBSET AllFlags, "P" \in f, "A" \notin f
  PROVE  Reached(Linked(M, s, N, f), N + 1, addr(Entry(N, f), v[k + 1]), k + 1, v, WK, w)
<1>1. PICK lev : /\ Shape(M, N, lev) /\ Seen(M, N, lev, WK) /\ OnLevel(s, N, lev, k)
                 /\ WK = {} => Maps(M, w)
                 /\ \E h : Follow(h, M, Root, v) /\ h[k] = s
  BY Zenon DEF Reached
<1>2. PICK h : Follow(h, M, Root, v) /\ h[k] = s
  BY <1>1, Zenon
<1>3. Linkable(M, N, lev, k, s, f)
  BY <1>1, Zenon DEF Linkable
<1> DEFINE m == Linked(M, s, N, f)
           n == N + 1
           L == Deeper(lev, N, k)
           e == Entry(N, f)
           j == k + 1
<1>4. Shape(m, n, L) /\ Seen(m, n, L, WK)
  BY <1>1, <1>3, LinkedShape, LinkedSeen, Zenon
<1>5. WK = {} => Maps(m, w)
  <2>1. \A u \in Virt : translate(m, Root, u) = translate(M, Root, u)
    BY <1>3, LinkedTranslate
  <2> QED
    BY <1>1, <2>1, Zenon DEF Maps
<1>6. PICK g : Follow(g, m, Root, v)
  BY FindSlotIs, Zenon
<1>7. Kin(s, g[k], N)
  BY <1>2, <1>3, <1>6, LinkedWalk, Zenon
<1>8. s # NoSlot /\ s \in Slots /\ s[1] < N /\ lev[s[1]] = k
  BY <1>1, NoSlotIsNone, Zenon DEF OnLevel
<1>9. g[k] = s
  BY <1>7, <1>8, Zenon DEF Kin
<1>10. OneLink(M, s, N, f, m)
  BY <1>3, LinkedIs, Zenon
<1>11. At(m, s) = e /\ N \in Tabs /\ N \in Nat
  BY <1>10, Zenon DEF OneLink
<1>12. lev \in [Tabs -> 1 .. Levels]
  BY <1>1, Zenon DEF Shape, Levelled
<1>13. s[1] \in Tabs /\ s[1] < n
  BY <1>8, <1>11 DEF Slots, Tabs
<1>14. L[s[1]] = k
  <2>1. \A t \in Tabs : t < N => L[t] = lev[t]
    BY <1>11, <1>12, DeeperIs, ZenonT(40)
  <2> QED
    BY <1>8, <1>13, <2>1, Zenon
<1>15. OnLevel(s, n, L, k)
  BY <1>8, <1>13, <1>14, Zenon DEF OnLevel
<1>16. present(e)
  <2>1. e.flags = f
    BY EntryParts, Zenon
  <2> QED
    BY <2>1, Zenon DEF present
<1>17. /\ Len(v) = Levels /\ Levels \in Nat /\ j \in 2 .. Levels /\ j - 1 = k
       /\ v[j] \in 0 .. TableSize - Shift - 1
  BY Pages
<1>18. Levelled(m, n, L) /\ present(At(m, s))
  BY <1>4, <1>11, <1>16, Zenon DEF Shape
<1>19. OnLevel(addr(At(m, s), v[j]), n, L, j)
  BY <1>15, <1>17, <1>18, StepDown, Zenon
<1> HIDE DEF m, n, L, e, j
<1>20. OnLevel(addr(e, v[j]), n, L, j)
  BY <1>11, <1>19, Zenon
<1>21. g[j] = addr(e, v[j])
  <2>1. g[j] = Below(m, g[j - 1], v[j])
    BY <1>6, <1>17, Zenon DEF Follow
  <2>2. g[j] = Below(m, s, v[j])
    BY <1>9, <1>17, <2>1, Zenon
  <2> QED
    BY <1>8, <1>11, <1>18, <2>2, Zenon DEF Below
<1>22. Reached(m, n, addr(e, v[j]), j, v, WK, w)
  BY <1>4, <1>5, <1>6, <1>20, <1>21, ZenonT(40) DEF Reached
<1> QED
  BY <1>22, Zenon DEF m, n, e, j

LEMMA DescendStep ==
  ASSUME NEW d, NEW k \in 1 .. Levels, k < Levels, NEW v \in Virt, NEW WK, NEW w,
         Descended(d, k, v, WK, w)
  PROVE  Descended(Descend(d, v[k + 1]), k + 1, v, WK, w)
<1> DEFINE e == At(d.mem, d.slot)
           f == (e.flags \cap Low) \cup {"P", "W"}
           new == Entry(d.next, f)
           i == v[k + 1]
           j == k + 1
<1>1. d.next \in Nat /\ (d.next <= MaxTables + 1 => Reached(d.mem, d.next, d.slot, k, v, WK, w))
  BY Zenon DEF Descended
<1>2. CASE present(e)
  <2>1. Descend(d, i) = Walk(d.mem, d.next, addr(e, i))
    BY <1>2, Zenon DEF Descend
  <2>2. d.next <= MaxTables + 1 => Reached(d.mem, d.next, addr(e, i), j, v, WK, w)
    BY <1>1, <1>2, ReachedOld, Zenon
  <2> HIDE DEF e, i, j
  <2>3. Descended(Walk(d.mem, d.next, addr(e, i)), j, v, WK, w)
    BY <1>1, <2>2, DescendedWalk, Zenon
  <2> QED
    BY <2>1, <2>3, Zenon DEF i, j
<1>3. CASE ~ present(e)
  <2>1. Descend(d, i) = Walk(Linked(d.mem, d.slot, d.next, f), d.next + 1, addr(new, i))
    BY <1>3, Zenon DEF Descend, Linked
  <2>2. d.next + 1 \in Nat /\ (d.next + 1 <= MaxTables + 1 => d.next <= MaxTables + 1 /\ d.next < MaxTables + 1)
    BY <1>1, Sizes
  <2>3. ASSUME d.next + 1 <= MaxTables + 1
        PROVE  Reached(Linked(d.mem, d.slot, d.next, f), d.next + 1, addr(new, i), j, v, WK, w)
    <3>1. Reached(d.mem, d.next, d.slot, k, v, WK, w) /\ d.next < MaxTables + 1
      BY <1>1, <2>2, <2>3, Zenon
    <3>2. e \in Entries
      <4>1. PICK lev : Shape(d.mem, d.next, lev) /\ OnLevel(d.slot, d.next, lev, k)
        BY <3>1, Zenon DEF Reached
      <4>2. d.mem \in Mems /\ d.slot \in Slots
        BY <4>1, Zenon DEF Shape, Levelled, OnLevel
      <4> QED
        BY <4>2, AtType, Zenon
    <3>3. f \in SUBSET AllFlags /\ "P" \in f /\ "A" \notin f
      <4> HIDE DEF e
      <4> QED
        BY <3>2, LinkFlags, Zenon
    <3> HIDE DEF f
    <3> QED
      BY <1>3, <3>1, <3>3, ReachedNew, Zenon
  <2> HIDE DEF e, f, i, j, new
  <2>4. Descended(Walk(Linked(d.mem, d.slot, d.next, f), d.next + 1, addr(new, i)), j, v, WK, w)
    BY <2>2, <2>3, DescendedWalk, Zenon
  <2> QED
    BY <2>1, <2>4, Zenon DEF i, j
<1> QED
  BY <1>2, <1>3, Zenon


LEMMA DescendAll ==
  ASSUME NEW m, NEW n, NEW WK, NEW w, Good(m, n, WK, w), NEW v \in Virt, NEW g, DownFollow(g, m, n, v)
  PROVE  Descended(g[Levels], Levels, v, WK, w)
<1> DEFINE S == {k \in 1 .. Levels : Descended(g[k], k, v, WK, w)}
<1>1. /\ Len(v) = Levels /\ Levels \in Nat /\ 1 \in Nat /\ Levels \in 1 .. Levels
      /\ v[1] \in 0 .. TableSize - Shift - 1
  BY Pages
<1>2. Descended(g[1], 1, v, WK, w)
  <2>1. PICK lev : Shape(m, n, lev) /\ Seen(m, n, lev, WK) /\ (WK = {} => Maps(m, w))
    BY Zenon DEF Good
  <2>2. PICK h : Follow(h, m, Root, v)
    BY FindSlotIs, Zenon
  <2>3. h[1] = <<Root, v[1]>>
    BY <2>2, Zenon DEF Follow
  <2>4. n \in 2 .. MaxTables + 1 /\ lev[Root] = 1
    BY <2>1, Zenon DEF Shape
  <2>5. n \in Nat /\ Root < n
    BY <2>4, Sizes
  <2>6. OnLevel(<<Root, v[1]>>, n, lev, 1)
    <3>1. v[1] \in Index
      BY <1>1, Sizes, SMTT(40) DEF Index
    <3>2. <<Root, v[1]>> \in Slots /\ <<Root, v[1]>>[1] = Root
      BY <3>1, Sizes, Zenon DEF Slots
    <3> QED
      BY <2>4, <2>5, <3>2, Zenon DEF OnLevel
  <2>7. Reached(m, n, <<Root, v[1]>>, 1, v, WK, w)
    BY <2>1, <2>2, <2>3, <2>6, Zenon DEF Reached
  <2>8. Descended(Walk(m, n, <<Root, v[1]>>), 1, v, WK, w)
    BY <2>5, <2>7, DescendedWalk, Zenon
  <2> QED
    BY <2>8, Zenon DEF DownFollow
<1>3. ASSUME NEW k \in 1 .. Levels, \A j \in 1 .. k - 1 : j \in S PROVE Descended(g[k], k, v, WK, w)
  <2>1. CASE k = 1
    BY <1>2, <2>1, Zenon
  <2>2. CASE k # 1
    <3> DEFINE i == k - 1
    <3>1. i \in 1 .. k - 1 /\ k \in 2 .. Levels /\ i \in 1 .. Levels /\ i < Levels /\ i + 1 = k
      BY <1>1, <2>2
    <3>2. g[k] = Descend(g[i], v[k])
      BY <1>1, <3>1, Zenon DEF DownFollow
    <3> HIDE DEF i
    <3>3. Descended(g[i], i, v, WK, w)
      BY <1>3, <3>1, Zenon
    <3>4. Descended(Descend(g[i], v[i + 1]), i + 1, v, WK, w)
      BY <3>1, <3>3, DescendStep, Zenon
    <3> QED
      BY <3>1, <3>2, <3>4, Zenon
  <2> QED
    BY <2>1, <2>2, Zenon
<1>4. \A k \in 1 .. Levels : (\A j \in 1 .. k - 1 : j \in S) => k \in S
  BY <1>3, Zenon
<1> HIDE DEF S
<1>5. 1 .. Levels \subseteq S
  BY <1>1, <1>4, RangeInduction, Zenon
<1> QED
  BY <1>1, <1>5, Zenon DEF S

\* map_page keeps the invariant, with the new mapping in the place of the old.
LEMMA MapGood ==
  ASSUME NEW m, NEW n, NEW WK, NEW w, Good(m, n, WK, w), w = [u \in Virt |-> w[u]], NEW v \in Virt,
         NEW phys \in Nat, NEW flags \in SUBSET AllFlags,
         AfterMap(m, n, v, phys, flags).next <= MaxTables + 1
  PROVE  Good(AfterMap(m, n, v, phys, flags).mem, AfterMap(m, n, v, phys, flags).next, WK,
              [w EXCEPT ![v] = Given(Entry(phys, flags))])
<1> DEFINE a == AfterMap(m, n, v, phys, flags)
           x == [w EXCEPT ![v] = Given(Entry(phys, flags))]
<1>1. PICK g : DownFollow(g, m, n, v) /\ a = Finish(g[Len(v)], phys, flags)
  <2> HIDE DEF a
  <2> QED
    BY AfterMapIs DEF a
<1>2. Len(v) = Levels
  BY Pages, Zenon
<1> DEFINE d == g[Levels]
           e == Leaf(At(d.mem, d.slot), phys, flags)
<1>3. a = Walk(Put(d.mem, d.slot, e), d.next, d.slot)
  BY <1>1, <1>2, Zenon DEF Finish
<1>4. a.mem = Put(d.mem, d.slot, e) /\ a.next = d.next
  <2> HIDE DEF a, d, e
  <2> QED
    BY <1>3, WalkParts
<1>5. e = Entry(phys, flags)
  BY EntryParts, Zenon DEF Leaf, set_flags, set_addr
<1>6. e \in Entries
  BY <1>5, EntryParts, Zenon
<1>7. Descended(d, Levels, v, WK, w)
  BY <1>1, DescendAll, Zenon
<1>8. a.next <= MaxTables + 1
  BY Zenon
<1> HIDE DEF a, d, e
<1>9. Reached(d.mem, d.next, d.slot, Levels, v, WK, w)
  BY <1>4, <1>7, <1>8, Zenon DEF Descended
<1>10. PICK lev : /\ Shape(d.mem, d.next, lev) /\ Seen(d.mem, d.next, lev, WK)
                  /\ OnLevel(d.slot, d.next, lev, Levels)
                  /\ WK = {} => Maps(d.mem, w)
                  /\ \E h : Follow(h, d.mem, Root, v) /\ h[Levels] = d.slot
  BY <1>9, Zenon DEF Reached
<1>11. PICK h : Follow(h, d.mem, Root, v) /\ h[Levels] = d.slot
  BY <1>10, Zenon
<1>12. PICK q : Follow(q, d.mem, Root, v) /\ FindSlot(d.mem, Root, v) = q[Levels]
  BY TranslateIs, Zenon
<1>13. q = h
  BY <1>11, <1>12, FollowUnique, Zenon
<1>14. FindSlot(d.mem, Root, v) = d.slot
  BY <1>11, <1>12, <1>13, Zenon
<1>15. d.slot # NoSlot
  BY <1>10, NoSlotIsNone, Zenon DEF OnLevel
<1>16. Good(d.mem, d.next, WK, w)
  BY <1>10, Zenon DEF Good
<1>17. Good(Put(d.mem, FindSlot(d.mem, Root, v), e), d.next, WK, [w EXCEPT ![v] = Given(e)])
  <2>1. FindSlot(d.mem, Root, v) # NoSlot
    BY <1>14, <1>15, Zenon
  <2> QED
    BY <1>6, <1>16, <2>1, LeafGood, Zenon
<1>18. Good(a.mem, a.next, WK, x)
  BY <1>4, <1>5, <1>14, <1>17, Zenon
<1> QED
  BY <1>18, Zenon DEF a


\* unmap_page keeps the invariant and leaves the page unmapped.
LEMMA UnmapGood ==
  ASSUME NEW m, NEW n, NEW WK, NEW w, Good(m, n, WK, w), w = [u \in Virt |-> w[u]], NEW v \in Virt
  PROVE  Good(AfterUnmap(m, v), n, WK, [w EXCEPT ![v] = Unmapped])
<1> DEFINE s == FindSlot(m, Root, v)
           e == set_flags(At(m, s), {})
<1>1. PICK lev : Shape(m, n, lev) /\ Seen(m, n, lev, WK) /\ (WK = {} => Maps(m, w))
  BY Zenon DEF Good
<1>2. CASE s = NoSlot
  <2> DEFINE x == [w EXCEPT ![v] = Unmapped]
  <2>1. AfterUnmap(m, v) = m
    BY <1>2, Zenon DEF AfterUnmap
  <2>2. translate(m, Root, v) = Unmapped
    BY <1>2, Zenon DEF translate
  <2>3. x[v] = Unmapped /\ \A u \in Virt : u # v => x[u] = w[u]
    BY Zenon
  <2> HIDE DEF x
  <2>4. WK = {} => Maps(m, x)
    BY <1>1, <2>2, <2>3, Zenon DEF Maps
  <2>5. Good(m, n, WK, x)
    BY <1>1, <2>4, Zenon DEF Good
  <2> QED
    BY <2>1, <2>5, Zenon DEF x
<1>3. CASE s # NoSlot
  <2>1. AfterUnmap(m, v) = Put(m, s, e)
    BY <1>3, Zenon DEF AfterUnmap
  <2>2. PICK g : Follow(g, m, Root, v) /\ s = g[Levels]
    BY TranslateIs, Zenon
  <2>3. Levelled(m, n, lev) /\ lev[Root] = 1 /\ n \in 2 .. MaxTables + 1 /\ m \in Mems
    BY <1>1, Zenon DEF Shape, Levelled
  <2>4. Root \in Tabs /\ Root < n /\ Levels \in 1 .. Levels
    BY <2>3, Sizes, LevelsAre
  <2>5. s \in Slots
    <3>1. OnLevel(s, n, lev, Levels)
      BY <1>3, <2>2, <2>3, <2>4, FollowLevels, Zenon
    <3> QED
      BY <3>1, Zenon DEF OnLevel
  <2>6. At(m, s).addr \in Nat /\ {} \in SUBSET AllFlags
    BY <2>3, <2>5, AtType, EntryParts, Zenon
  <2>7. e \in Entries
    BY <2>6, EntryParts, Zenon DEF set_flags
  <2>8. Given(e) = Unmapped
    <3>1. e.flags = {}
      BY EntryParts, Zenon DEF set_flags
    <3> QED
      BY <3>1, Zenon DEF Given, present
  <2>9. Good(Put(m, s, e), n, WK, [w EXCEPT ![v] = Given(e)])
    BY <1>3, <2>7, LeafGood, Zenon
  <2> QED
    BY <2>1, <2>8, <2>9, Zenon
<1> QED
  BY <1>2, <1>3

\* Other flags in the entry of a mapped page.
LEMMA FlagsGood ==
  ASSUME NEW m, NEW n, NEW WK, NEW w, Good(m, n, WK, w), w = [u \in Virt |-> w[u]], NEW v \in Virt,
         translate(m, Root, v) # Unmapped, NEW f \in SUBSET AllFlags
  PROVE  LET s == FindSlot(m, Root, v)
         IN /\ translate(m, Root, v) = At(m, s) /\ At(m, s) \in Entries
            /\ Good(Put(m, s, set_flags(At(m, s), f)), n, WK,
                    [w EXCEPT ![v] = Given(Entry(At(m, s).addr, f))])
<1> DEFINE s == FindSlot(m, Root, v)
           e == set_flags(At(m, s), f)
<1>1. PICK lev : Shape(m, n, lev)
  BY Zenon DEF Good
<1>2. s # NoSlot /\ translate(m, Root, v) = At(m, s)
  BY Zenon DEF translate
<1>3. PICK g : Follow(g, m, Root, v) /\ s = g[Levels]
  BY TranslateIs, Zenon
<1>4. Levelled(m, n, lev) /\ lev[Root] = 1 /\ n \in 2 .. MaxTables + 1 /\ m \in Mems
  BY <1>1, Zenon DEF Shape, Levelled
<1>5. Root \in Tabs /\ Root < n /\ Levels \in 1 .. Levels
  BY <1>4, Sizes, LevelsAre
<1>6. s \in Slots
  <2>1. OnLevel(s, n, lev, Levels)
    BY <1>2, <1>3, <1>4, <1>5, FollowLevels, Zenon
  <2> QED
    BY <2>1, Zenon DEF OnLevel
<1>7. At(m, s) \in Entries
  BY <1>4, <1>6, AtType, Zenon
<1>8. e = Entry(At(m, s).addr, f) /\ e \in Entries
  BY <1>7, EntryParts, Zenon DEF set_flags
<1>9. Good(Put(m, s, e), n, WK, [w EXCEPT ![v] = Given(e)])
  BY <1>2, <1>8, LeafGood, Zenon
<1> QED
  BY <1>2, <1>7, <1>8, <1>9, Zenon


\* The hardware sets the accessed bits along its path.
Marked(m, P) ==
  [t \in DOMAIN m |-> [i \in DOMAIN m[t] |->
     IF <<t, i>> \in P THEN set_flags(m[t][i], m[t][i].flags \cup {"A"}) ELSE m[t][i]]]
Accessed(e) == Entry(e.addr, e.flags \cup {"A"})

LEMMA AccessedIs ==
  ASSUME NEW e \in Entries
  PROVE  /\ Accessed(e) \in Entries /\ Accessed(e).addr = e.addr /\ Accessed(e).flags = e.flags \cup {"A"}
         /\ present(Accessed(e)) <=> present(e)
<1>1. e.addr \in Nat /\ e.flags \in SUBSET AllFlags
  BY EntryParts, Zenon
<1>2. e.flags \cup {"A"} \in SUBSET AllFlags
  BY <1>1, Zenon DEF AllFlags, High
<1>3. /\ Accessed(e) \in Entries /\ Accessed(e).addr = e.addr /\ Accessed(e).flags = e.flags \cup {"A"}
  BY <1>1, <1>2, EntryParts, Zenon DEF Accessed
<1>4. "P" \in e.flags \cup {"A"} <=> "P" \in e.flags
  BY Zenon
<1> QED
  BY <1>3, <1>4, Zenon DEF present

LEMMA MarkedIs ==
  ASSUME NEW m \in Mems, NEW P
  PROVE  /\ Marked(m, P) \in Mems
         /\ \A r \in Slots : (r \in P => At(Marked(m, P), r) = Accessed(At(m, r)))
                             /\ (r \notin P => At(Marked(m, P), r) = At(m, r))
<1> DEFINE c(t, i) == IF <<t, i>> \in P THEN Accessed(m[t][i]) ELSE m[t][i]
           M == [t \in Tabs |-> [i \in Index |-> c(t, i)]]
<1>1. DOMAIN m = Tabs /\ \A t \in Tabs : DOMAIN m[t] = Index
  BY Zenon DEF Mems
<1>2. Marked(m, P) = M
  BY <1>1, Zenon DEF Marked, set_flags, Accessed
<1>3. \A t \in Tabs, i \in Index : m[t][i] \in Entries
  BY Zenon DEF Mems
<1>4. \A t \in Tabs, i \in Index : c(t, i) \in Entries
  BY <1>3, AccessedIs, Zenon
<1>5. M \in Mems
  <2> HIDE DEF c
  <2> QED
    BY <1>4, Zenon DEF Mems
<1>6. \A t \in Tabs, i \in Index : M[t][i] = c(t, i)
  <2> HIDE DEF c
  <2> QED
    BY Zenon
<1> HIDE DEF M
<1>7. ASSUME NEW r \in Slots PROVE r[1] \in Tabs /\ r[2] \in Index /\ <<r[1], r[2]>> = r
  BY DEF Slots
<1>8. ASSUME NEW r \in Slots
      PROVE  (r \in P => At(M, r) = Accessed(At(m, r))) /\ (r \notin P => At(M, r) = At(m, r))
  <2>1. At(M, r) = c(r[1], r[2])
    BY <1>6, <1>7, Zenon DEF At
  <2>2. c(r[1], r[2]) = IF r \in P THEN Accessed(At(m, r)) ELSE At(m, r)
    BY <1>7, Zenon DEF At
  <2> HIDE DEF c
  <2> QED
    BY <2>1, <2>2, Zenon
<1> QED
  BY <1>2, <1>5, <1>8, Zenon

LEMMA AccessGood ==
  ASSUME NEW m, NEW n, NEW WK, NEW w, Good(m, n, WK, w), NEW v \in Virt, HwWalk(m, Root, v) # Unmapped
  PROVE  LET path == HwPath(m, Root, v)
         IN Good(Marked(m, Range(path)), n, WK \cup Range(Front(path)), w)
<1> DEFINE path == HwPath(m, Root, v)
           P == Range(path)
           F == Range(Front(path))
           M == Marked(m, P)
<1>1. PICK lev : Shape(m, n, lev) /\ Seen(m, n, lev, WK)
  BY Zenon DEF Good
<1>2. Levelled(m, n, lev) /\ lev[Root] = 1 /\ n \in 2 .. MaxTables + 1 /\ m \in Mems
  BY <1>1, Zenon DEF Shape, Levelled
<1>3. Root \in Tabs /\ Root < n /\ Levels \in 1 .. Levels /\ Levels \in Nat /\ 1 \in 1 .. Levels - 1
  BY <1>2, Sizes, LevelsAre, SMTT(40)
<1>4. PICK h : /\ HwFollow(h, m, Root, v) /\ HwWalk(m, Root, v) = Found(m, h[Levels])
               /\ Trodden(path, h, Levels)
  BY HwWalkIs, Zenon
<1>5. h[Levels] # NoSlot
  BY <1>4, Zenon DEF Found
<1>6. P = Image(h, Levels) /\ F = Image(h, Levels - 1)
  BY <1>4, <1>5, FrontIs, Zenon
<1>7. \A k \in 1 .. Levels : h[k] = NoSlot \/ OnLevel(h[k], n, lev, k)
  BY <1>2, <1>3, <1>4, HwFollowLevels, Zenon
<1>8. M \in Mems
  BY <1>2, MarkedIs, Zenon
<1>9. \A r \in Slots : (r \in P => At(M, r) = Accessed(At(m, r))) /\ (r \notin P => At(M, r) = At(m, r))
  BY <1>2, MarkedIs, Zenon
<1> HIDE DEF path, P, F, M
<1>10. \A r \in Slots : r \in P => \E k \in 1 .. Levels : h[k] = r /\ OnLevel(r, n, lev, k)
  <2> SUFFICES ASSUME NEW r \in Slots, r \in P PROVE \E k \in 1 .. Levels : h[k] = r /\ OnLevel(r, n, lev, k)
    BY Zenon
  <2>1. PICK k \in 1 .. Levels : r = h[k]
    BY <1>6, Zenon DEF Image
  <2> QED
    BY <1>7, <2>1, NoSlotIsNone, Zenon
<1>11. ASSUME NEW r \in Slots
       PROVE  /\ present(At(M, r)) <=> present(At(m, r))
              /\ At(M, r).addr = At(m, r).addr
  <2>1. At(m, r) \in Entries
    BY <1>2, AtType, Zenon
  <2> QED
    BY <1>9, <2>1, AccessedIs, ZenonT(40)
<1>12. \A r \in Slots : Points(M, n, lev, r) => Points(m, n, lev, r) /\ At(M, r).addr = At(m, r).addr
  BY <1>11, Zenon DEF Points
<1>13. Levelled(M, n, lev)
  <2>1. \A r \in Slots : Points(M, n, lev, r) =>
       At(M, r).addr \in 1 .. n - 1 /\ lev[At(M, r).addr] = lev[r[1]] + 1
    BY <1>2, <1>12, Zenon DEF Levelled
  <2> QED
    BY <1>2, <1>8, <2>1, Zenon DEF Levelled
<1>14. \A r \in Slots : ~ (r[1] < n) => At(M, r) = empty
  <2>1. \A r \in Slots : ~ (r[1] < n) => r \notin P
    BY <1>10, Zenon DEF OnLevel
  <2> QED
    BY <1>1, <1>9, <2>1, Zenon DEF Shape
<1>15. \A r, q \in Slots :
       (Points(M, n, lev, r) /\ Points(M, n, lev, q) /\ At(M, r).addr = At(M, q).addr) => r = q
  BY <1>1, <1>12, Zenon DEF Shape
<1>16. Shape(M, n, lev)
  BY <1>2, <1>13, <1>14, <1>15, ZenonT(40) DEF Shape
<1>17. ASSUME NEW r \in Slots, Upper(r, n, lev), "A" \in At(M, r).flags PROVE r \in WK \cup F
  <2>1. CASE r \in P
    <3>1. PICK k \in 1 .. Levels : h[k] = r /\ OnLevel(r, n, lev, k)
      BY <1>10, <2>1, Zenon
    <3>2. k < Levels
      BY <1>17, <3>1, Zenon DEF Upper, OnLevel
    <3>3. k \in 1 .. Levels - 1
      BY <1>3, <3>2
    <3> QED
      BY <1>6, <3>1, <3>3, Zenon DEF Image
  <2>2. CASE r \notin P
    <3>1. "A" \in At(m, r).flags
      BY <1>9, <1>17, <2>2, Zenon
    <3> QED
      BY <1>1, <1>17, <3>1, Zenon DEF Seen
  <2> QED
    BY <2>1, <2>2, Zenon
<1>18. WK \cup F # {}
  <2>1. h[1] \in F
    BY <1>3, <1>6, Zenon DEF Image
  <2> QED
    BY <2>1, Zenon
<1>19. Seen(M, n, lev, WK \cup F)
  BY <1>17, Zenon DEF Seen
<1>20. Good(M, n, WK \cup F, w)
  BY <1>16, <1>18, <1>19, Zenon DEF Good
<1> QED
  BY <1>20, Zenon DEF M, F, P, path


-----------------------------------------------------------------------------
(***************************************************************************)
(* The invariant of the specification.                                     *)
(***************************************************************************)
PagingInv == Good(tables, next, walked, want) /\ want = [u \in Virt |-> want[u]]

LEMMA AskIs ==
  ASSUME want = [u \in Virt |-> want[u]], NEW v \in Virt, NEW phys, NEW flags, Ask(v, phys, flags)
  PROVE  /\ want' = [want EXCEPT ![v] = Given(Entry(phys, flags))]
         /\ want' = [u \in Virt |-> want'[u]]
<1> DEFINE c == Given(Entry(phys, flags))
<1>1. Entry(phys, flags).flags = flags
  BY EntryParts, Zenon
<1>2. (IF "P" \in flags THEN Entry(phys, flags) ELSE Unmapped) = c
  BY <1>1, Zenon DEF Given, present
<1>3. want' = [want EXCEPT ![v] = c]
  BY <1>2, Zenon DEF Ask
<1> HIDE DEF c
<1>4. want' = [u \in Virt |-> want'[u]]
  BY <1>3, Zenon
<1> QED
  BY <1>3, <1>4, Zenon DEF c

LEMMA PagingInitial == PagingInit => PagingInv
<1> SUFFICES ASSUME PagingInit PROVE PagingInv
  BY Zenon
<1> DEFINE m == tables
           lev == [t \in Tabs |-> 1]
<1>1. /\ m = [t \in Tabs |-> [i \in Index |-> empty]] /\ next = 2 /\ walked = {}
      /\ want = [u \in Virt |-> Unmapped]
  BY Zenon DEF PagingInit, Tabs, Index
<1>2. m \in Mems
  BY <1>1, EmptyIs, Zenon DEF Mems
<1>3. \A r \in Slots : At(m, r) = empty
  BY <1>1, Zenon DEF Slots, At
<1>4. \A r \in Slots : ~ present(At(m, r)) /\ "A" \notin At(m, r).flags
  BY <1>3, EmptyIs, Zenon
<1>5. lev \in [Tabs -> 1 .. Levels] /\ lev[Root] = 1
  BY Sizes, LevelsAre
<1> HIDE DEF m, lev
<1>6. next \in Nat /\ next <= MaxTables + Spare + 1 /\ next \in 2 .. MaxTables + 1
  BY <1>1, Sizes
<1>7. \A n : \A r \in Slots : ~ Points(m, n, lev, r)
  BY <1>4, Zenon DEF Points
<1>8. Levelled(m, next, lev)
  BY <1>2, <1>5, <1>6, <1>7, Zenon DEF Levelled
<1>9. Shape(m, next, lev)
  BY <1>3, <1>5, <1>6, <1>7, <1>8, Zenon DEF Shape
<1>10. Seen(m, next, lev, walked)
  BY <1>4, Zenon DEF Seen
<1>11. ASSUME NEW u \in Virt PROVE translate(m, Root, u) = want[u]
  <2>1. PICK g : Follow(g, m, Root, u) /\ translate(m, Root, u) = Found(m, g[Levels])
    BY TranslateIs, Zenon
  <2>2. Root \in Tabs /\ Root < next /\ Levels \in 1 .. Levels
    BY <1>6, Sizes, LevelsAre
  <2>3. g[Levels] = NoSlot \/ OnLevel(g[Levels], next, lev, Levels)
    BY <1>5, <1>8, <2>1, <2>2, FollowLevels, Zenon
  <2>4. g[Levels] = NoSlot \/ ~ present(At(m, g[Levels]))
    BY <1>4, <2>3, Zenon DEF OnLevel
  <2>5. translate(m, Root, u) = Unmapped
    BY <2>1, <2>4, Zenon DEF Found
  <2>6. want[u] = Unmapped
    BY <1>1, Zenon
  <2> QED
    BY <2>5, <2>6, Zenon
<1>12. Good(m, next, walked, want)
  BY <1>9, <1>10, <1>11, Zenon DEF Good, Maps
<1>13. want = [u \in Virt |-> want[u]]
  BY <1>1, Zenon
<1> QED
  BY <1>12, <1>13, Zenon DEF PagingInv, m

LEMMA MapStep ==
  ASSUME NEW m, Good(m, next, walked, want), want = [u \in Virt |-> want[u]],
         NEW v \in Virt, NEW phys \in Frames, NEW flags \in SUBSET AllFlags,
         Becomes(AfterMap(m, next, v, phys, flags)), Ask(v, phys, flags), walked' = walked
  PROVE  PagingInv'
<1> DEFINE a == AfterMap(m, next, v, phys, flags)
           x == [want EXCEPT ![v] = Given(Entry(phys, flags))]
<1>1. a.next <= MaxTables + 1 /\ tables' = a.mem /\ next' = a.next
  BY Zenon DEF Becomes
<1>2. phys \in Nat
  BY PagingAssumption, Zenon
<1>3. Good(a.mem, a.next, walked, x)
  BY <1>1, <1>2, MapGood, Zenon
<1>4. want' = x /\ want' = [u \in Virt |-> want'[u]]
  BY AskIs, Zenon
<1> HIDE DEF a, x
<1>5. Good(tables', next', walked', want')
  BY <1>1, <1>3, <1>4, Zenon
<1> QED
  BY <1>4, <1>5, Zenon DEF PagingInv

LEMMA FlagsStep ==
  ASSUME PagingInv, NEW v \in Virt, translate(tables, Root, v) # Unmapped, NEW f \in SUBSET AllFlags,
         tables' = Put(tables, FindSlot(tables, Root, v), set_flags(At(tables, FindSlot(tables, Root, v)), f)),
         Ask(v, At(tables, FindSlot(tables, Root, v)).addr, f), next' = next, walked' = walked
  PROVE  PagingInv'
<1> DEFINE s == FindSlot(tables, Root, v)
           x == [want EXCEPT ![v] = Given(Entry(At(tables, s).addr, f))]
<1>1. Good(tables, next, walked, want) /\ want = [u \in Virt |-> want[u]]
  BY Zenon DEF PagingInv
<1>2. Good(Put(tables, s, set_flags(At(tables, s), f)), next, walked, x)
  BY <1>1, FlagsGood, Zenon
<1>3. want' = x /\ want' = [u \in Virt |-> want'[u]]
  BY <1>1, AskIs, Zenon
<1> HIDE DEF x
<1>4. Good(tables', next', walked', want')
  BY <1>2, <1>3, Zenon
<1> QED
  BY <1>3, <1>4, Zenon DEF PagingInv

LEMMA PagingInvStep == PagingInv /\ [PagingNext]_pagingVars => PagingInv'
<1> SUFFICES ASSUME PagingInv, [PagingNext]_pagingVars PROVE PagingInv'
  BY Zenon
<1>1. Good(tables, next, walked, want) /\ want = [u \in Virt |-> want[u]]
  BY Zenon DEF PagingInv
<1>2. \A f \in Flags : f \in SUBSET AllFlags /\ f \cup {"U"} \in SUBSET AllFlags
  BY PagingAssumption, Zenon DEF AllFlags, Low
<1>3. ASSUME NEW v \in Virt, NEW phys \in Frames, NEW flags \in Flags, map_page(v, phys, flags)
      PROVE  PagingInv'
  BY <1>1, <1>2, <1>3, MapStep, Zenon DEF map_page
<1>4. ASSUME NEW v \in Virt, NEW phys \in Frames, NEW flags \in Flags, remap_page(v, phys, flags)
      PROVE  PagingInv'
  <2> DEFINE m == AfterUnmap(tables, v)
             x == [want EXCEPT ![v] = Unmapped]
  <2>1. Good(m, next, walked, x)
    BY <1>1, UnmapGood, Zenon
  <2>2. x = [u \in Virt |-> x[u]]
    BY <1>1, Zenon
  <2>3. \A c : [x EXCEPT ![v] = c] = [want EXCEPT ![v] = c]
    BY <1>1, Zenon
  <2>4. Becomes(AfterMap(m, next, v, phys, flags)) /\ Ask(v, phys, flags) /\ walked' = walked
    BY <1>4, Zenon DEF remap_page
  <2> DEFINE a == AfterMap(m, next, v, phys, flags)
             c == Given(Entry(phys, flags))
  <2>5. a.next <= MaxTables + 1 /\ tables' = a.mem /\ next' = a.next
    BY <2>4, Zenon DEF Becomes
  <2>6. phys \in Nat /\ flags \in SUBSET AllFlags
    BY <1>2, PagingAssumption, Zenon
  <2> HIDE DEF x, m
  <2>7. Good(a.mem, a.next, walked, [x EXCEPT ![v] = c])
    BY <2>1, <2>2, <2>5, <2>6, MapGood, ZenonT(40)
  <2>8. want' = [want EXCEPT ![v] = c] /\ want' = [u \in Virt |-> want'[u]]
    BY <1>1, <2>4, AskIs, Zenon
  <2> HIDE DEF a, c
  <2>9. Good(tables', next', walked', want')
    BY <2>3, <2>4, <2>5, <2>7, <2>8, ZenonT(40)
  <2> QED
    BY <2>8, <2>9, Zenon DEF PagingInv
<1>5. ASSUME NEW v \in Virt, NEW phys \in Frames, NEW flags \in Flags, alloc_and_map_user_page(v, phys, flags)
      PROVE  PagingInv'
  BY <1>1, <1>2, <1>5, MapStep, Zenon DEF alloc_and_map_user_page
<1>6. ASSUME NEW v \in Virt, NEW phys \in Frames, NEW flags \in Flags, ensure_page_mapped(v, phys, flags)
      PROVE  PagingInv'
  BY <1>3, <1>6, Zenon DEF ensure_page_mapped
<1>7. ASSUME NEW v \in Virt, NEW flags \in Flags, set_page_flags(v, flags) PROVE PagingInv'
  <2>1. translate(tables, Root, v) # Unmapped
    BY <1>7, Zenon DEF set_page_flags
  <2>2. translate(tables, Root, v) = At(tables, FindSlot(tables, Root, v))
    BY <2>1, Zenon DEF translate
  <2>3. /\ tables' = Put(tables, FindSlot(tables, Root, v), set_flags(At(tables, FindSlot(tables, Root, v)), flags))
        /\ Ask(v, At(tables, FindSlot(tables, Root, v)).addr, flags) /\ next' = next /\ walked' = walked
    BY <1>7, <2>2, Zenon DEF set_page_flags
  <2> QED
    BY <1>2, <2>1, <2>3, FlagsStep, Zenon
<1>8. ASSUME NEW v \in Virt, NEW bit \in {"A", "D"}, mark_page(v, bit) PROVE PagingInv'
  <2> DEFINE s == FindSlot(tables, Root, v)
             f == At(tables, s).flags \cup {bit}
  <2>1. translate(tables, Root, v) # Unmapped /\ {} \in SUBSET AllFlags
    BY <1>8, Zenon DEF mark_page
  <2>2. /\ tables' = Put(tables, s, set_flags(At(tables, s), f))
        /\ Ask(v, At(tables, s).addr, f) /\ next' = next /\ walked' = walked
    BY <1>8, Zenon DEF mark_page
  <2>3. At(tables, s) \in Entries
    BY <1>1, <2>1, FlagsGood, ZenonT(40)
  <2>4. f \in SUBSET AllFlags
    <3>1. At(tables, s).flags \in SUBSET AllFlags /\ bit \in AllFlags
      BY <2>3, EntryParts, Zenon DEF AllFlags, High
    <3> QED
      BY <3>1, Zenon
  <2> HIDE DEF f
  <2> QED
    BY <2>1, <2>2, <2>4, FlagsStep, Zenon
<1>9. ASSUME NEW v \in Virt, unmap_page(v) PROVE PagingInv'
  <2>1. tables' = AfterUnmap(tables, v) /\ Ask(v, 0, {}) /\ next' = next /\ walked' = walked
    BY <1>9, Zenon DEF unmap_page
  <2>2. Given(Entry(0, {})) = Unmapped
    BY EmptyIs, Zenon DEF Given, empty
  <2>3. want' = [want EXCEPT ![v] = Unmapped] /\ want' = [u \in Virt |-> want'[u]]
    BY <1>1, <2>1, <2>2, AskIs, Zenon
  <2>4. Good(AfterUnmap(tables, v), next, walked, [want EXCEPT ![v] = Unmapped])
    BY <1>1, UnmapGood, Zenon
  <2> QED
    BY <2>1, <2>3, <2>4, Zenon DEF PagingInv
<1>10. ASSUME NEW v \in Virt, Access(v) PROVE PagingInv'
  <2> DEFINE path == HwPath(tables, Root, v)
  <2>1. /\ HwWalk(tables, Root, v) # Unmapped /\ tables' = Marked(tables, Range(path))
        /\ walked' = walked \cup Range(Front(path)) /\ next' = next /\ want' = want
    BY <1>10, Zenon DEF Access, Marked
  <2>2. Good(Marked(tables, Range(path)), next, walked \cup Range(Front(path)), want)
    BY <1>1, <2>1, AccessGood, Zenon
  <2> HIDE DEF path
  <2>3. Good(tables', next', walked', want')
    BY <2>1, <2>2, Zenon
  <2>4. want' = [u \in Virt |-> want'[u]]
    BY <1>1, <2>1, Zenon
  <2> QED
    BY <2>3, <2>4, Zenon DEF PagingInv
<1>11. CASE UNCHANGED pagingVars
  <2>1. tables' = tables /\ next' = next /\ walked' = walked /\ want' = want
    BY <1>11 DEF pagingVars
  <2> QED
    BY <1>1, <2>1, Zenon DEF PagingInv
<1> QED
  BY <1>3, <1>4, <1>5, <1>6, <1>7, <1>8, <1>9, <1>10, <1>11, ZenonT(40) DEF PagingNext, Build

LEMMA PagingInvHolds == PagingSpec => []PagingInv
BY PagingInitial, PagingInvStep, PTL DEF PagingSpec

\* As long as no entry of an upper table has been used by the hardware, it finds
\* for every page what the last call about it asked for, whatever other pages
\* share its tables, and translate_virt_to_phys and get_page_flags find the same.
THEOREM PagesAreAsAsked == PagingSpec => []TranslationIsAsAsked
<1>1. PagingInv => TranslationIsAsAsked
  <2> SUFFICES ASSUME PagingInv, walked = {}, NEW v \in Virt
               PROVE  /\ HwWalk(tables, Root, v) = want[v]
                      /\ translate(tables, Root, v) = want[v]
                      /\ get_page_flags(tables, Root, v) =
                           (IF want[v] = Unmapped THEN {} ELSE want[v].flags)
    BY Zenon DEF TranslationIsAsAsked
  <2>1. PICK lev : Shape(tables, next, lev) /\ Seen(tables, next, lev, walked)
    BY Zenon DEF PagingInv, Good
  <2>2. translate(tables, Root, v) = want[v]
    BY Zenon DEF PagingInv, Good, Maps
  <2>3. Range(Front(HwPath(tables, Root, v))) \cap walked = {}
    BY Zenon
  <2>4. LET e == HwWalk(tables, Root, v)
        IN /\ translate(tables, Root, v) = e
           /\ get_page_flags(tables, Root, v) = (IF e = Unmapped THEN {} ELSE e.flags)
    BY <2>1, <2>3, Agreement, Zenon
  <2> QED
    BY <2>2, <2>4, Zenon
<1> QED
  BY <1>1, PagingInvHolds, PTL

-----------------------------------------------------------------------------
(***************************************************************************)
(* clone_page_table.                                                       *)
(***************************************************************************)
CloneFollow(g) ==
  /\ g = [k \in 0 .. TableSize |-> g[k]]
  /\ g[0] = Clone(tables, next + 1, next)
  /\ \A k \in 1 .. TableSize : g[k] = CloneEntry(g[k - 1], k - 1)

LEMMA CloneIs == \E g : CloneFollow(g) /\ clone_page_table = g[TableSize]
<1> DEFINE n == TableSize
           b == Clone(tables, next + 1, next)
           done[k \in 0 .. n] ==
             IF k = 0 THEN Clone(tables, next + 1, next)
             ELSE CloneEntry(done[k - 1], k - 1)
           Ok(g, k) == /\ g = [j \in 0 .. n |-> g[j]] /\ g[0] = b
                       /\ \A j \in 1 .. k : g[j] = CloneEntry(g[j - 1], j - 1)
           S == {k \in 0 .. n : \E g : Ok(g, k)}
<1>1. clone_page_table = done[n]
  BY Zenon DEF clone_page_table
<1>2. n \in Nat /\ n > 1
  BY Sizes
<1> HIDE DEF n, b
<1>3. ASSUME NEW k \in 0 .. n, \A j \in 0 .. k - 1 : j \in S PROVE \E g : Ok(g, k)
  <2>1. CASE k = 0
    <3> DEFINE g == [j \in 0 .. n |-> b]
    <3>1. g = [j \in 0 .. n |-> g[j]] /\ g[0] = b /\ 1 .. 0 = {}
      BY <1>2
    <3> HIDE DEF g
    <3>2. Ok(g, k)
      BY <2>1, <3>1, Zenon
    <3> QED
      BY <3>2, Zenon
  <2>2. CASE k # 0
    <3>1. k - 1 \in 0 .. k - 1
      BY <2>2
    <3>2. PICK g : Ok(g, k - 1)
      BY <1>3, <3>1, Zenon
    <3> DEFINE w == CloneEntry(g[k - 1], k - 1)
               h == [j \in 0 .. n |-> IF j = k THEN w ELSE g[j]]
    <3> HIDE DEF w
    <3>3. h = [j \in 0 .. n |-> h[j]] /\ h[0] = g[0] /\ h[k] = w /\ h[k - 1] = g[k - 1]
      BY <1>2, <2>2, SMTT(40)
    <3>4. \A j \in 1 .. k - 1 : h[j] = g[j] /\ h[j - 1] = g[j - 1]
      BY <1>2
    <3>5. \A j \in 1 .. k : j = k \/ j \in 1 .. k - 1
      OBVIOUS
    <3> HIDE DEF h
    <3>6. \A j \in 1 .. k : h[j] = CloneEntry(h[j - 1], j - 1)
      <4> TAKE j \in 1 .. k
      <4>1. CASE j = k
        BY <3>3, <4>1, Zenon DEF w
      <4>2. CASE j \in 1 .. k - 1
        BY <3>2, <3>4, <4>2, Zenon
      <4> QED
        BY <3>5, <4>1, <4>2, Zenon
    <3>7. Ok(h, k)
      BY <3>2, <3>3, <3>6, Zenon
    <3> QED
      BY <3>7, Zenon
  <2> QED
    BY <2>1, <2>2, Zenon
<1>4. \A k \in 0 .. n : (\A j \in 0 .. k - 1 : j \in S) => k \in S
  BY <1>3, Zenon
<1>5. 0 \in Nat /\ n \in 0 .. n
  BY <1>2
<1>6. 0 .. n \subseteq S
  <2> HIDE DEF S
  <2> QED
    BY <1>2, <1>4, <1>5, RangeInduction, Zenon
<1>7. PICK g : Ok(g, n)
  BY <1>5, <1>6, Zenon
<1>8. \A k \in 0 .. n : k = 0 \/ k \in 1 .. n
  BY <1>2
<1>9. g = [k \in 0 .. n |-> IF k = 0 THEN Clone(tables, next + 1, next) ELSE CloneEntry(g[k - 1], k - 1)]
  <2>1. \A k \in 0 .. n : g[k] = IF k = 0 THEN Clone(tables, next + 1, next) ELSE CloneEntry(g[k - 1], k - 1)
    BY <1>7, <1>8, Zenon DEF b
  <2> QED
    BY <1>7, <2>1, Zenon
<1>10. done = [k \in 0 .. n |-> IF k = 0 THEN Clone(tables, next + 1, next) ELSE CloneEntry(done[k - 1], k - 1)]
  BY <1>9, Zenon
<1> HIDE DEF done
<1>11. done = [k \in 0 .. n |-> IF k = 0 THEN b ELSE CloneEntry(done[k - 1], k - 1)]
  BY <1>10, Zenon DEF b
<1>12. /\ done = [k \in 0 .. n |-> done[k]]
       /\ done[0] = b /\ \A k \in 1 .. n : done[k] = CloneEntry(done[k - 1], k - 1)
  BY <1>2, <1>11
<1>13. CloneFollow(done)
  BY <1>12, Zenon DEF CloneFollow, n, b
<1> QED
  BY <1>1, <1>13, Zenon DEF n

LEMMA CloneParts ==
  ASSUME NEW m, NEW n, NEW r
  PROVE  Clone(m, n, r).mem = m /\ Clone(m, n, r).next = n /\ Clone(m, n, r).root = r
BY Zenon DEF Clone

LEMMA CopyTableIs ==
  ASSUME NEW m \in Mems, NEW old \in Tabs, NEW new \in Tabs
  PROVE  /\ CopyTable(m, old, new) \in Mems
         /\ \A j \in Index : At(CopyTable(m, old, new), <<new, j>>) = At(m, <<old, j>>)
         /\ \A r \in Slots : r[1] # new => At(CopyTable(m, old, new), r) = At(m, r)
<1>1. CopyTable(m, old, new) \in Mems
  BY Zenon DEF CopyTable, Mems
<1>2. \A j \in Index : At(CopyTable(m, old, new), <<new, j>>) = At(m, <<old, j>>)
  BY Zenon DEF CopyTable, Mems, At
<1>3. \A r \in Slots : r[1] # new => At(CopyTable(m, old, new), r) = At(m, r)
  BY Zenon DEF CopyTable, Mems, At, Slots
<1> QED
  BY <1>1, <1>2, <1>3, SMTT(40)

\* Entry i of the new root, table n, is that of the old one, or points to a
\* copy of the table that the old one points to.
SameBelow(m, M, a, c) == \A j \in Index : At(M, <<c, j>>) = At(m, <<a, j>>)
SameEntry(m, n, M, N, i) ==
  LET e == At(m, <<Root, i>>)
      c == At(M, <<n, i>>)
  IN c = e \/ (/\ present(e) /\ present(c) /\ c.addr \in n + 1 .. N - 1
               /\ SameBelow(m, M, e.addr, c.addr))
Copied(m, n, M, N, k) ==
  /\ M \in Mems /\ N \in Nat /\ n < N /\ N <= n + 1 + k
  /\ \A r \in Slots : r[1] < n => At(M, r) = At(m, r)
  /\ \A i \in 0 .. k - 1 : SameEntry(m, n, M, N, i)

\* Nothing that the entries made so far depend on changes.
LEMMA SameKept ==
  ASSUME NEW m, NEW n \in Nat, NEW M, NEW N \in Nat, NEW i \in Index, SameEntry(m, n, M, N, i), n \in Tabs,
         N <= MaxTables + Spare,
         NEW A, NEW B \in Nat, N <= B, At(A, <<n, i>>) = At(M, <<n, i>>),
         \A r \in Slots : r[1] \in n + 1 .. N - 1 => At(A, r) = At(M, r)
  PROVE  SameEntry(m, n, A, B, i)
<1> DEFINE e == At(m, <<Root, i>>)
           c == At(M, <<n, i>>)
<1>1. c = e \/ (/\ present(e) /\ present(c) /\ c.addr \in n + 1 .. N - 1
                /\ SameBelow(m, M, e.addr, c.addr))
  BY Zenon DEF SameEntry
<1>2. At(A, <<n, i>>) = c
  BY Zenon
<1> HIDE DEF c, e
<1>3. CASE c = e
  BY <1>2, <1>3, Zenon DEF SameEntry, e
<1>4. CASE /\ present(e) /\ present(c) /\ c.addr \in n + 1 .. N - 1 /\ SameBelow(m, M, e.addr, c.addr)
  <2>1. c.addr \in n + 1 .. B - 1 /\ c.addr \in Tabs
    BY <1>4, Sizes DEF Tabs
  <2>2. ASSUME NEW j \in Index PROVE At(A, <<c.addr, j>>) = At(m, <<e.addr, j>>)
    <3>1. <<c.addr, j>> \in Slots /\ <<c.addr, j>>[1] = c.addr
      BY <2>1, Zenon DEF Slots
    <3>2. At(A, <<c.addr, j>>) = At(M, <<c.addr, j>>)
      BY <1>4, <3>1, Zenon
    <3> QED
      BY <1>4, <3>2, Zenon DEF SameBelow
  <2>3. SameBelow(m, A, e.addr, c.addr)
    BY <2>2, Zenon DEF SameBelow
  <2> QED
    BY <1>2, <1>4, <2>1, <2>3, ZenonT(40) DEF SameEntry, e
<1> QED
  BY <1>1, <1>3, <1>4, Zenon


FirstStands(m) ==
  \A i \in 0 .. TableSize - 1 : present(m[Root][i]) => {"P", "W"} \subseteq m[m[Root][i].addr][0].flags

\* After entry k: from the tables M, N before it to A, B.
LEMMA CopiedNext ==
  ASSUME NEW m, NEW n \in Nat, n \in Tabs, n < MaxTables + 1, NEW k \in Index, NEW M, NEW N,
         Copied(m, n, M, N, k), NEW A, NEW B \in Nat, B = N \/ B = N + 1, A \in Mems,
         \A r \in Slots : r # <<n, k>> /\ r[1] # N => At(A, r) = At(M, r),
         SameEntry(m, n, A, B, k)
  PROVE  Copied(m, n, A, B, k + 1)
<1>1. /\ N \in Nat /\ n < N /\ N <= n + 1 + k
      /\ \A r \in Slots : r[1] < n => At(M, r) = At(m, r)
      /\ \A i \in 0 .. k - 1 : SameEntry(m, n, M, N, i)
  BY Zenon DEF Copied
<1>2. n < B /\ B <= n + 1 + (k + 1) /\ N <= B /\ N <= MaxTables + Spare /\ n # N
  BY <1>1, Sizes DEF Index
<1>3. ASSUME NEW r \in Slots, r[1] < n PROVE At(A, r) = At(m, r)
  <2>1. r[1] # N /\ r[1] # n
    BY <1>1, <1>3 DEF Slots, Tabs
  <2>2. <<n, k>>[1] = n
    BY Zenon
  <2>3. r # <<n, k>>
    BY <2>1, <2>2, Zenon
  <2> QED
    BY <1>1, <1>3, <2>1, <2>3, ZenonT(40)
<1>4. ASSUME NEW i \in 0 .. k - 1 PROVE SameEntry(m, n, A, B, i)
  <2>1. i \in Index /\ i # k /\ <<n, i>> \in Slots /\ <<n, i>>[1] = n /\ <<n, i>> # <<n, k>>
    <3>1. i \in Index /\ i # k
      BY <1>4, Sizes, SMTT(40) DEF Index
    <3>2. <<n, i>> # <<n, k>>
      BY <3>1, Zenon
    <3>3. <<n, i>> \in Slots /\ <<n, i>>[1] = n
      BY <3>1, Zenon DEF Slots
    <3> QED
      BY <3>1, <3>2, <3>3, SMTT(40)
  <2>2. At(A, <<n, i>>) = At(M, <<n, i>>)
    BY <1>2, <2>1, Zenon
  <2>3. ASSUME NEW r \in Slots, r[1] \in n + 1 .. N - 1 PROVE At(A, r) = At(M, r)
    <3>1. r[1] # n /\ r[1] # N
      BY <1>1, <2>3, SMTT(40)
    <3>2. <<n, k>>[1] = n
      BY Zenon
    <3>3. r # <<n, k>>
      BY <3>1, <3>2, Zenon
    <3> QED
      BY <3>1, <3>3, Zenon
  <2>4. SameEntry(m, n, M, N, i)
    BY <1>1, <1>4, Zenon
  <2> QED
    BY <1>1, <1>2, <2>1, <2>2, <2>3, <2>4, SameKept, ZenonT(40)
<1>5. \A i \in 0 .. (k + 1) - 1 : i = k \/ i \in 0 .. k - 1
  BY DEF Index
<1>6. \A i \in 0 .. (k + 1) - 1 : SameEntry(m, n, A, B, i)
  BY <1>4, <1>5, Zenon
<1> QED
  BY <1>2, <1>3, <1>6, Zenon DEF Copied

LEMMA CloneStep ==
  ASSUME NEW m, NEW n, NEW lev, Shape(m, n, lev), n < MaxTables + 1, FirstStands(m),
         NEW k \in Index, NEW d, d.root = n, Copied(m, n, d.mem, d.next, k)
  PROVE  LET c == CloneEntry(d, k) IN c.root = n /\ Copied(m, n, c.mem, c.next, k + 1)
<1> DEFINE M == d.mem
           N == d.next
           e == M[Root][k]
           slot == <<n, k>>
<1>1. n \in 2 .. MaxTables + 1 /\ Levelled(m, n, lev) /\ m \in Mems /\ lev[Root] = 1
  BY Zenon DEF Shape, Levelled
<1>2. n \in Nat /\ n \in Tabs /\ Root \in Tabs /\ Root < n /\ 0 \in Index
  BY <1>1, Sizes DEF Tabs, Index
<1>3. /\ M \in Mems /\ N \in Nat /\ n < N /\ N <= n + 1 + k
      /\ \A r \in Slots : r[1] < n => At(M, r) = At(m, r)
  BY Zenon DEF Copied
<1>4. N \in Tabs /\ n # N /\ N + 1 \in Nat
  BY <1>2, <1>3, Sizes, SMTT(40) DEF Tabs, Index
<1>5. slot \in Slots /\ slot[1] = n /\ slot[2] = k
  BY <1>2, Zenon DEF Slots
<1>6. <<Root, k>> \in Slots /\ <<Root, k>>[1] = Root /\ <<Root, k>>[2] = k
  BY <1>2, Zenon DEF Slots
<1>7. e = At(M, <<Root, k>>) /\ e = At(m, <<Root, k>>) /\ e = m[Root][k]
  BY <1>2, <1>3, <1>6, Zenon DEF At
<1>8. e \in Entries
  BY <1>3, <1>6, <1>7, AtType, ZenonT(40)
<1> HIDE DEF M, N, e, slot
<1>9. CASE ~ present(e) \/ "PS" \in e.flags
  <2> DEFINE A == Put(M, slot, e)
  <2>1. CloneEntry(d, k) = Clone(A, N, n)
    BY <1>9, Zenon DEF CloneEntry, M, N, e, slot
  <2>2. A \in Mems /\ At(A, slot) = e /\ \A r \in Slots : r # slot => At(A, r) = At(M, r)
    BY <1>3, <1>5, <1>8, PutIs, ZenonT(40)
  <2> HIDE DEF A
  <2>3. SameEntry(m, n, A, N, k)
    BY <1>7, <2>2, Zenon DEF SameEntry, slot
  <2>4. Copied(m, n, M, N, k)
    BY Zenon DEF M, N
  <2>5. \A r \in Slots : r # <<n, k>> /\ r[1] # N => At(A, r) = At(M, r)
    BY <2>2, Zenon DEF slot
  <2>6. Copied(m, n, A, N, k + 1)
    BY <1>2, <1>3, <2>2, <2>3, <2>4, <2>5, CopiedNext, ZenonT(40)
  <2> QED
    BY <2>1, <2>6, CloneParts, SMTT(40)
<1>10. CASE present(e) /\ "PS" \notin e.flags
  <2> DEFINE a == e.addr
             first == M[a][0]
             f == first.flags \cap {"P", "W", "U"}
             copy == Entry(N, f)
             C == CopyTable(M, a, N)
             A == Put(C, slot, copy)
  <2>1. CloneEntry(d, k) = Clone(A, N + 1, n)
    BY <1>10, Zenon DEF CloneEntry, M, N, e, slot
  <2>2. a \in 1 .. n - 1
    <3>1. Points(m, n, lev, <<Root, k>>)
      <4>1. 1 < Levels
        BY LevelsAre, Zenon
      <4> QED
        BY <1>1, <1>2, <1>6, <1>7, <1>10, <4>1, ZenonT(40) DEF Points, Upper
    <3> QED
      BY <1>1, <1>6, <1>7, <3>1, Zenon DEF Levelled
  <2>3. a \in Tabs /\ a < n
    BY <1>2, <2>2, Sizes, SMTT(40) DEF Tabs
  <2>4. <<a, 0>> \in Slots /\ <<a, 0>>[1] = a /\ <<a, 0>>[2] = 0
    BY <1>2, <2>3 DEF Slots
  <2> HIDE DEF a
  <2>5. first = m[a][0]
    BY <1>3, <2>3, <2>4, Zenon DEF At
  <2>6. {"P", "W"} \subseteq first.flags
    <3>1. k \in 0 .. TableSize - 1
      BY Zenon DEF Index
    <3> QED
      BY <1>7, <1>10, <2>5, <3>1, Zenon DEF FirstStands, a
  <2> HIDE DEF first
  <2>7. f \in SUBSET AllFlags /\ "P" \in f
    BY <2>6, Zenon DEF AllFlags, Low
  <2> HIDE DEF f
  <2>8. copy \in Entries /\ copy.addr = N /\ copy.flags = f
    BY <1>3, <2>7, EntryParts, Zenon
  <2>9. present(copy)
    BY <2>7, <2>8, Zenon DEF present
  <2>10. /\ C \in Mems /\ \A j \in Index : At(C, <<N, j>>) = At(M, <<a, j>>)
         /\ \A r \in Slots : r[1] # N => At(C, r) = At(M, r)
    BY <1>3, <1>4, <2>3, CopyTableIs, ZenonT(40)
  <2> HIDE DEF C, copy
  <2>11. A \in Mems /\ At(A, slot) = copy /\ \A r \in Slots : r # slot => At(A, r) = At(C, r)
    BY <1>5, <2>8, <2>10, PutIs, ZenonT(40)
  <2> HIDE DEF A
  <2>12. ASSUME NEW j \in Index PROVE At(A, <<N, j>>) = At(m, <<a, j>>)
    <3>1. <<N, j>> \in Slots /\ <<N, j>>[1] = N /\ <<a, j>> \in Slots /\ <<a, j>>[1] = a
      BY <1>4, <2>3, Zenon DEF Slots
    <3>2. <<N, j>> # slot
      BY <1>4, <1>5, <3>1, Zenon
    <3>3. At(A, <<N, j>>) = At(M, <<a, j>>)
      BY <2>10, <2>11, <3>1, <3>2, Zenon
    <3> QED
      BY <1>3, <2>3, <3>1, <3>3, Zenon
  <2>13. N \in n + 1 .. (N + 1) - 1
    BY <1>2, <1>3
  <2>14. SameEntry(m, n, A, N + 1, k)
    <3>1. SameBelow(m, A, a, N)
      BY <2>12, Zenon DEF SameBelow
    <3>2. At(A, <<n, k>>) = copy /\ At(m, <<Root, k>>) = e
      BY <1>7, <2>11, Zenon DEF slot
    <3> QED
      BY <1>10, <2>8, <2>9, <2>13, <3>1, <3>2, Zenon DEF SameEntry, a
  <2>15. Copied(m, n, M, N, k)
    BY Zenon DEF M, N
  <2>16. \A r \in Slots : r # <<n, k>> /\ r[1] # N => At(A, r) = At(M, r)
    BY <2>10, <2>11, Zenon DEF slot
  <2>17. Copied(m, n, A, N + 1, k + 1)
    BY <1>2, <1>4, <2>11, <2>14, <2>15, <2>16, CopiedNext, ZenonT(40)
  <2> QED
    BY <2>1, <2>17, CloneParts, SMTT(40)
<1> QED
  BY <1>9, <1>10, Zenon


LEMMA CloneAll ==
  ASSUME NEW lev, Shape(tables, next, lev), next < MaxTables + 1, FirstStands(tables)
  PROVE  /\ clone_page_table.root = next
         /\ Copied(tables, next, clone_page_table.mem, clone_page_table.next, TableSize)
<1>1. PICK g : CloneFollow(g) /\ clone_page_table = g[TableSize]
  BY CloneIs, Zenon
<1> DEFINE P(k) == g[k].root = next /\ Copied(tables, next, g[k].mem, g[k].next, k)
           S == {k \in 0 .. TableSize : P(k)}
<1>2. TableSize \in Nat /\ 0 \in Nat /\ TableSize \in 0 .. TableSize
  BY Sizes
<1>3. P(0)
  <2>1. g[0] = Clone(tables, next + 1, next)
    BY <1>1, Zenon DEF CloneFollow
  <2>2. g[0].mem = tables /\ g[0].next = next + 1 /\ g[0].root = next
    BY <2>1, CloneParts
  <2>3. next \in 2 .. MaxTables + 1 /\ tables \in Mems
    BY Zenon DEF Shape, Levelled
  <2>4. next + 1 \in Nat /\ next < next + 1 /\ next + 1 <= next + 1 + 0 /\ 0 .. 0 - 1 = {}
    BY <2>3, Sizes
  <2>5. Copied(tables, next, tables, next + 1, 0)
    BY <2>3, <2>4, Zenon DEF Copied
  <2> QED
    BY <2>2, <2>5, Zenon
<1>4. ASSUME NEW k \in 0 .. TableSize, \A j \in 0 .. k - 1 : j \in S PROVE P(k)
  <2>1. CASE k = 0
    BY <1>3, <2>1, Zenon
  <2>2. CASE k # 0
    <3> DEFINE i == k - 1
    <3>1. i \in 0 .. k - 1 /\ k \in 1 .. TableSize /\ i + 1 = k /\ i \in Index
      BY <1>2, <2>2 DEF Index
    <3>2. g[k] = CloneEntry(g[i], i)
      BY <1>1, <3>1, Zenon DEF CloneFollow
    <3> HIDE DEF i
    <3>3. P(i)
      BY <1>4, <3>1, Zenon
    <3> DEFINE c == CloneEntry(g[i], i)
    <3>4. c.root = next /\ Copied(tables, next, c.mem, c.next, i + 1)
      <4>1. g[i].root = next /\ Copied(tables, next, g[i].mem, g[i].next, i)
        BY <3>3, Zenon
      <4> QED
        BY <3>1, <4>1, CloneStep
    <3> HIDE DEF c
    <3>5. g[k] = c
      BY <3>2, Zenon DEF c
    <3> QED
      BY <3>1, <3>4, <3>5, Zenon
  <2> QED
    BY <2>1, <2>2, Zenon
<1>5. \A k \in 0 .. TableSize : (\A j \in 0 .. k - 1 : j \in S) => k \in S
  BY <1>4, Zenon
<1>6. 0 .. TableSize \subseteq S
  <2> HIDE DEF S
  <2> QED
    BY <1>2, <1>5, RangeInduction, Zenon
<1>7. P(TableSize)
  BY <1>2, <1>6, Zenon
<1> QED
  BY <1>1, <1>7, Zenon

\* Two walks are at entries that are the same.
Sim(m, M, x, y) ==
  (x = NoSlot /\ y = NoSlot) \/ (x # NoSlot /\ y # NoSlot /\ At(M, y) = At(m, x))

LEMMA SimBelow ==
  ASSUME NEW m, NEW M, NEW x, NEW y, Sim(m, M, x, y), NEW i
  PROVE  HwBelow(M, y, i) = HwBelow(m, x, i)
<1>1. CASE x = NoSlot /\ y = NoSlot
  BY <1>1, Zenon DEF HwBelow
<1>2. CASE x # NoSlot /\ y # NoSlot /\ At(M, y) = At(m, x)
  BY <1>2, Zenon DEF HwBelow
<1> QED
  BY <1>1, <1>2, Zenon DEF Sim

LEMMA SimSame ==
  ASSUME NEW m, NEW n, NEW M, NEW N, NEW k, Copied(m, n, M, N, k), NEW lev, NEW j, NEW x,
         x = NoSlot \/ OnLevel(x, n, lev, j)
  PROVE  Sim(m, M, x, x)
<1>1. \A r \in Slots : r[1] < n => At(M, r) = At(m, r)
  BY Zenon DEF Copied
<1> QED
  BY <1>1, Zenon DEF Sim, OnLevel

LEMMA CloneWalk ==
  ASSUME NEW m, NEW n, NEW lev, Shape(m, n, lev), NEW M, NEW N, Copied(m, n, M, N, TableSize),
         NEW v \in Virt, NEW h, HwFollow(h, m, Root, v), NEW q, HwFollow(q, M, n, v)
  PROVE  Sim(m, M, h[Levels], q[Levels])
<1> DEFINE S == {k \in 2 .. Levels : Sim(m, M, h[k], q[k])}
<1>1. /\ Len(v) = Levels /\ Levels \in Nat /\ Levels > 1 /\ 2 \in Nat /\ Levels \in 2 .. Levels
      /\ 2 \in 2 .. Levels /\ 2 \in 1 .. Levels
      /\ v[1] \in 0 .. TableSize - Shift - 1 /\ v[2] \in 0 .. TableSize - Shift - 1
  BY Pages
<1>2. n \in 2 .. MaxTables + 1 /\ Levelled(m, n, lev) /\ m \in Mems /\ lev[Root] = 1
  BY Zenon DEF Shape, Levelled
<1>3. Root \in Tabs /\ Root < n /\ n \in Nat /\ n # 0 /\ Root # 0
  BY <1>2, Sizes
<1>4. \A k \in 1 .. Levels : h[k] = NoSlot \/ OnLevel(h[k], n, lev, k)
  BY <1>2, <1>3, HwFollowLevels, Zenon
<1>5. \A k \in 1 .. Levels : Sim(m, M, h[k], h[k])
  BY <1>4, SimSame, Zenon
<1>6. Sim(m, M, h[2], q[2])
  <2> DEFINE i == v[1]
             x == <<Root, i>>
             y == <<n, i>>
             e == At(m, x)
             c == At(M, y)
  <2>1. h[1] = x /\ q[1] = y
    BY Zenon DEF HwFollow
  <2>2. 2 - 1 = 1
    BY SMTT(40)
  <2>3. h[2] = HwBelow(m, x, v[2]) /\ q[2] = HwBelow(M, y, v[2])
    <3>1. h[2] = HwBelow(m, h[2 - 1], v[2]) /\ q[2] = HwBelow(M, q[2 - 1], v[2])
      BY <1>1, Zenon DEF HwFollow
    <3> QED
      BY <2>1, <2>2, <3>1
  <2>4. x # NoSlot /\ y # NoSlot
    BY <1>3, Zenon DEF NoSlot
  <2>5. i \in 0 .. TableSize - 1 /\ v[2] \in Index
    BY <1>1, Sizes DEF Index
  <2>6. c = e \/ (/\ present(e) /\ present(c) /\ c.addr \in n + 1 .. N - 1
                  /\ SameBelow(m, M, e.addr, c.addr))
    BY <2>5, Zenon DEF Copied, SameEntry
  <2> HIDE DEF x, y, e, c
  <2>7. CASE c = e
    <3>1. Sim(m, M, x, y)
      BY <2>4, <2>7, Zenon DEF Sim, c, e
    <3>2. q[2] = h[2]
      <4>1. HwBelow(M, y, v[2]) = HwBelow(m, x, v[2])
        BY <3>1, SimBelow
      <4> QED
        BY <2>3, <4>1, Zenon
    <3> QED
      BY <1>1, <1>5, <3>2, Zenon
  <2>8. CASE /\ present(e) /\ present(c) /\ c.addr \in n + 1 .. N - 1 /\ SameBelow(m, M, e.addr, c.addr)
    <3>1. h[2] = <<e.addr, v[2]>> /\ q[2] = <<c.addr, v[2]>>
      BY <2>3, <2>4, <2>8, Zenon DEF HwBelow, c, e
    <3>2. x \in Slots /\ x[1] = Root
      BY <1>3, <2>5, Zenon DEF Slots, Index, x
    <3>3. Points(m, n, lev, x)
      <4>1. 1 < Levels
        BY <1>1, Zenon
      <4> QED
        BY <1>2, <1>3, <2>8, <3>2, <4>1, ZenonT(40) DEF Points, Upper, e
    <3>4. e.addr \in 1 .. n - 1
      BY <1>2, <3>2, <3>3, Zenon DEF Levelled, e
    <3>5. e.addr # 0 /\ c.addr # 0
      BY <1>3, <2>8, <3>4, SMTT(40)
    <3>6. h[2] # NoSlot /\ q[2] # NoSlot
      BY <3>1, <3>5 DEF NoSlot
    <3>7. At(M, q[2]) = At(m, h[2])
      BY <2>5, <2>8, <3>1, ZenonT(40) DEF SameBelow
    <3> QED
      BY <3>6, <3>7, Zenon DEF Sim
  <2> QED
    BY <2>6, <2>7, <2>8, Zenon
<1>7. ASSUME NEW k \in 2 .. Levels, \A j \in 2 .. k - 1 : j \in S PROVE Sim(m, M, h[k], q[k])
  <2>1. CASE k = 2
    BY <1>6, <2>1, Zenon
  <2>2. CASE k # 2
    <3> DEFINE i == k - 1
    <3>1. i \in 2 .. k - 1 /\ k \in 1 .. Levels
      BY <1>1, <2>2, SMTT(40)
    <3>2. h[k] = HwBelow(m, h[i], v[k]) /\ q[k] = HwBelow(M, q[i], v[k])
      BY <1>1, <1>7, Zenon DEF HwFollow
    <3> HIDE DEF i
    <3>3. Sim(m, M, h[i], q[i])
      BY <1>7, <3>1, Zenon
    <3>4. q[k] = h[k]
      <4>1. HwBelow(M, q[i], v[k]) = HwBelow(m, h[i], v[k])
        BY <3>3, SimBelow
      <4> QED
        BY <3>2, <4>1, Zenon
    <3> QED
      BY <1>5, <3>1, <3>4, ZenonT(40)
  <2> QED
    BY <2>1, <2>2, Zenon
<1>8. \A k \in 2 .. Levels : (\A j \in 2 .. k - 1 : j \in S) => k \in S
  BY <1>7, Zenon
<1>9. 2 .. Levels \subseteq S
  <2> HIDE DEF S
  <2> QED
    BY <1>1, <1>8, RangeInduction, ZenonT(40)
<1> QED
  BY <1>1, <1>9, Zenon

\* A clone made before the hardware has used the tables maps each page to
\* the same frame, with the same flags, as the original.
THEOREM ClonesMapTheSame == PagingSpec => []CloneMapsTheSame
<1>1. PagingInv => CloneMapsTheSame
  <2> SUFFICES ASSUME PagingInv, walked = {}, next + Spare <= MaxTables + Spare,
                      \A i \in 0 .. TableSize - 1 : present(tables[Root][i]) =>
                        {"P", "W"} \subseteq tables[tables[Root][i].addr][0].flags,
                      NEW v \in Virt
               PROVE  LET c == clone_page_table
                      IN HwWalk(c.mem, c.root, v) = HwWalk(tables, Root, v)
    BY Zenon DEF CloneMapsTheSame
  <2> DEFINE c == clone_page_table
  <2>1. PICK lev : Shape(tables, next, lev)
    BY Zenon DEF PagingInv, Good
  <2>2. next \in 2 .. MaxTables + 1
    BY <2>1, ZenonT(40) DEF Shape
  <2>3. next < MaxTables + 1
    BY <2>2, Sizes
  <2>4. FirstStands(tables)
    BY Zenon DEF FirstStands
  <2>5. c.root = next /\ Copied(tables, next, c.mem, c.next, TableSize)
    BY <2>1, <2>3, <2>4, CloneAll, Zenon
  <2> HIDE DEF c
  <2>6. PICK h : HwFollow(h, tables, Root, v) /\ HwWalk(tables, Root, v) = Found(tables, h[Levels])
    BY HwWalkIs, Zenon
  <2>7. PICK q : HwFollow(q, c.mem, next, v) /\ HwWalk(c.mem, next, v) = Found(c.mem, q[Levels])
    BY HwWalkIs, Zenon
  <2>8. Sim(tables, c.mem, h[Levels], q[Levels])
    BY <2>1, <2>5, <2>6, <2>7, CloneWalk, ZenonT(40)
  <2>9. Found(c.mem, q[Levels]) = Found(tables, h[Levels])
    <3>1. CASE h[Levels] = NoSlot /\ q[Levels] = NoSlot
      BY <3>1, Zenon DEF Found
    <3>2. CASE h[Levels] # NoSlot /\ q[Levels] # NoSlot /\ At(c.mem, q[Levels]) = At(tables, h[Levels])
      BY <3>2, Zenon DEF Found
    <3> QED
      BY <2>8, <3>1, <3>2, Zenon DEF Sim
  <2> QED
    BY <2>5, <2>6, <2>7, <2>9, Zenon DEF c
<1> QED
  BY <1>1, PagingInvHolds, PTL
=============================================================================
