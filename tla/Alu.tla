--------------------------------- MODULE Alu ---------------------------------
(***************************************************************************)
(* The integer instructions of the reference CPU (exec.cpp, RV32IM with    *)
(* Zba, Zbb, Zbc and Zbs): what each one computes, and which registers it  *)
(* reports to the timing model.  Words are sets of bits (module Words), so *)
(* a byte is Width / 4 bits.                                               *)
(*                                                                         *)
(* The register forms and the immediate forms of an operation are written  *)
(* alike in the code and are one operator here.                            *)
(***************************************************************************)
EXTENDS Words, FiniteSets

ASSUME AluAssumption == Width \in {4, 8, 16, 32}

\* Powers of two double, which the provers do not know of `^'.
ASSUME DoublingAssumption == \A k \in 1 .. 2 * Width : 2 ^ k = 2 * 2 ^ (k - 1)

Byte == Width \div 4

\* The number a word stands for, unsigned and signed, and the word that a
\* conversion of an integer to uint32_t gives.
Number(w) ==
  LET sum[k \in 0 .. Width] ==
        IF k = 0 THEN 0 ELSE sum[k - 1] + (IF k - 1 \in w THEN 2 ^ (k - 1) ELSE 0)
  IN  sum[Width]
Signed(w) == Number(w) - (IF Width - 1 \in w THEN 2 ^ Width ELSE 0)
Word(n) == {k \in BitIndices : (n \div 2 ^ k) % 2 = 1}

Truth(p) == IF p THEN {0} ELSE {}
Not(w) == BitIndices \ w

-----------------------------------------------------------------------------
(* Shifts, single bits and bytes                                           *)

Left(w, s) == {k + s : k \in w} \cap BitIndices
Right(w, s) == {k - s : k \in {j \in w : j >= s}}
\* Mutant: the operand is not taken as signed.
ArithmeticLogical(w, s) == Right(w, s)
Arithmetic(w, s) == Right(w, s) \cup (IF Width - 1 \in w THEN Width - s .. Width - 1 ELSE {})

shift(w) == Number(w) % Width

\* A rotation by s to the left.  By zero the code shifts by the whole width
\* as well, which is undefined; whether that gives w or nothing, the result
\* is w.
Rotated(w, s) == Left(w, s) \cup Right(w, (Width - s) % Width)

Low(w, n) == w \cap 0 .. n - 1
SignExtended(w, n) == Low(w, n) \cup (IF n - 1 \in w THEN n .. Width - 1 ELSE {})

clz(w) == Cardinality({k \in BitIndices : \A j \in w : j < k})
ctz(w) == Cardinality({k \in BitIndices : \A j \in w : j > k})
rev8(w) == {(3 - (k \div Byte)) * Byte + (k % Byte) : k \in w}
orcb(w) == {k \in BitIndices : \E j \in w : j \div Byte = k \div Byte}

\* The loop that adds up the terms without carries.
CarrylessSum(term) ==
  {k \in BitIndices : Cardinality({i \in DOMAIN term : k \in term[i]}) % 2 = 1}

clmul(a, b) == CarrylessSum([i \in b |-> Left(a, i)])
clmulr(a, b) == CarrylessSum([i \in b |-> Right(a, Width - 1 - i)])
clmulh(a, b) == CarrylessSum([i \in b \ {0} |-> Right(a, Width - i)])

-----------------------------------------------------------------------------
(* Products and quotients                                                  *)

High(product) == Word(product \div 2 ^ Width)

\* Integer division of C++, which truncates.
Abs(n) == IF n < 0 THEN -n ELSE n
Quotient(x, y) == IF (x < 0) = (y < 0) THEN Abs(x) \div Abs(y) ELSE -(Abs(x) \div Abs(y))
Remainder(x, y) == x - y * Quotient(x, y)

INT_MIN == {Width - 1}

Overflows(a, b) == a = INT_MIN /\ b = BitIndices

div(a, b) == CASE b = {} -> BitIndices
               [] b # {} /\ Overflows(a, b) -> INT_MIN
               [] OTHER -> Word(Quotient(Signed(a), Signed(b)))
rem(a, b) == CASE b = {} -> a
               [] b # {} /\ Overflows(a, b) -> {}
               [] OTHER -> Word(Remainder(Signed(a), Signed(b)))
divu(a, b) == IF b = {} THEN BitIndices ELSE Word(Number(a) \div Number(b))
remu(a, b) == IF b = {} THEN a ELSE Word(Number(a) % Number(b))

-----------------------------------------------------------------------------
(* Instructions by name                                                    *)

\* funct7 = 1
MulDiv(op, a, b) ==
  CASE op = "mul"    -> Word(Number(a) * Number(b))
    [] op = "mulh"   -> High(Signed(a) * Signed(b))
    [] op = "mulhsu" -> High(Signed(a) * Number(b))
    [] op = "mulhu"  -> High(Number(a) * Number(b))
    [] op = "div"    -> div(a, b)
    [] op = "divu"   -> divu(a, b)
    [] op = "rem"    -> rem(a, b)
    [] op = "remu"   -> remu(a, b)

\* The shifts, rotations, single bits and carry-less products.
ShiftLike(op, a, b) ==
  LET s == shift(b)
  IN  CASE op = "sll"    -> Left(a, s)
        [] op = "srl"    -> Right(a, s)
        [] op = "sra"    -> Arithmetic(a, s)
        [] op = "rol"    -> Rotated(a, s)
        [] op = "ror"    -> Rotated(a, (Width - s) % Width)
        [] op = "bclr"   -> a \ {s}
        [] op = "bset"   -> a \cup {s}
        [] op = "binv"   -> Xor(a, {s})
        [] op = "bext"   -> Truth(s \in a)
        [] op = "clmul"  -> clmul(a, b)
        [] op = "clmulr" -> clmulr(a, b)
        [] op = "clmulh" -> clmulh(a, b)

AddLike(op, a, b) ==
  CASE op = "add"    -> Plus(a, b)
    [] op = "sub"    -> Plus(a, Plus(Not(b), {0}))
    [] op = "sh1add" -> Plus(b, Left(a, 1))
    [] op = "sh2add" -> Plus(b, Left(a, 2))
    [] op = "sh3add" -> Plus(b, Left(a, 3))
    [] op = "slt"    -> Truth(SignedBelow(a, b))
    [] op = "sltu"   -> Truth(Below(a, b))
    [] op = "min"    -> IF SignedBelow(a, b) THEN a ELSE b
    [] op = "minu"   -> IF Below(a, b) THEN a ELSE b
    [] op = "max"    -> IF SignedBelow(b, a) THEN a ELSE b
    [] op = "maxu"   -> IF Below(b, a) THEN a ELSE b

Bitwise(op, a, b) ==
  CASE op = "xor"   -> Xor(a, b)
    [] op = "or"    -> a \cup b
    [] op = "and"   -> a \cap b
    [] op = "xnor"  -> Not(Xor(a, b))
    [] op = "orn"   -> a \cup Not(b)
    [] op = "andn"  -> a \ b
    [] op = "pack"  -> Low(a, 2 * Byte) \cup Left(b, 2 * Byte)
    [] op = "packh" -> Low(a, Byte) \cup Left(Low(b, Byte), Byte)

Unary(op, a) ==
  CASE op = "clz"    -> Word(clz(a))
    [] op = "ctz"    -> Word(ctz(a))
    [] op = "pcnt"   -> Word(Cardinality(a))
    [] op = "sext.b" -> SignExtended(a, Byte)
    [] op = "sext.h" -> SignExtended(a, 2 * Byte)
    [] op = "rev8"   -> rev8(a)
    [] op = "orcb"   -> orcb(a)

\* The branches: br_taken.
Taken(op, a, b) ==
  CASE op = "beq"  -> a = b
    [] op = "bne"  -> a # b
    [] op = "blt"  -> SignedBelow(a, b)
    [] op = "bge"  -> ~SignedBelow(a, b)
    [] op = "bltu" -> Below(a, b)
    [] op = "bgeu" -> ~Below(a, b)

-----------------------------------------------------------------------------
(* Bytes and halves in memory                                              *)

\* A store of size bytes at the given offset in the word.
Stored(old, data, size, offset) ==
  LET lanes == {k \in BitIndices : k \div Byte \in offset .. offset + size - 1}
  IN  (old \ lanes) \cup (Left(Low(data, size * Byte), offset * Byte) \cap lanes)

\* A load of size bytes at the given offset, which extends the sign or not.
Loaded(word, size, offset, signed) ==
  LET shifted == Right(word, offset * Byte)
  IN  IF signed THEN SignExtended(shifted, size * Byte) ELSE Low(shifted, size * Byte)

-----------------------------------------------------------------------------
(* The trace record of an instruction: what the timing model is told       *)

\* The operations, by the case of the decoder that executes them.
MulDivOps == {"mul", "mulh", "mulhsu", "mulhu", "div", "divu", "rem", "remu"}
ShiftOps == {"sll", "srl", "sra", "rol", "ror", "bclr", "bset", "binv", "bext",
             "clmul", "clmulr", "clmulh"}
AddOps == {"add", "sub", "sh1add", "sh2add", "sh3add", "slt", "sltu", "min", "minu",
           "max", "maxu"}
BitOps == {"xor", "or", "and", "xnor", "orn", "andn", "pack", "packh"}
RegisterOps == MulDivOps \cup ShiftOps \cup AddOps \cup BitOps
ImmediateOps == {"add", "slt", "sltu", "xor", "or", "and", "sll", "srl", "sra", "ror",
                 "bclr", "bset", "binv", "bext"}
UnaryOps == {"clz", "ctz", "pcnt", "sext.b", "sext.h", "rev8", "orcb"}
BranchOps == {"beq", "bne", "blt", "bge", "bltu", "bgeu"}

Binary(op, a, b) == CASE op \in MulDivOps -> MulDiv(op, a, b)
                      [] op \in ShiftOps  -> ShiftLike(op, a, b)
                      [] op \in AddOps    -> AddLike(op, a, b)
                      [] op \in BitOps    -> Bitwise(op, a, b)

\* Mutant: the fields of the instruction, whatever they mean in it.
ReportedFields(i) == [rd |-> i.rd, rs1 |-> i.rs1, rs2 |-> i.rs2]

\* current_trace.rd, rs1 and rs2; an immediate CSR instruction keeps its
\* operand in the field of rs1, a shift by an immediate in that of rs2.
Reported(i) ==
  CASE i.case \in {"lui", "auipc", "jal", "csri"} -> [rd |-> i.rd, rs1 |-> 0, rs2 |-> 0]
    [] i.case \in {"jalr", "load", "immediate", "unary", "csr"} ->
         [rd |-> i.rd, rs1 |-> i.rs1, rs2 |-> 0]
    [] i.case \in {"store", "branch"} -> [rd |-> 0, rs1 |-> i.rs1, rs2 |-> i.rs2]
    [] i.case \in {"register", "atomic"} -> [rd |-> i.rd, rs1 |-> i.rs1, rs2 |-> i.rs2]
    [] i.case = "fence" -> [rd |-> 0, rs1 |-> 0, rs2 |-> 0]

\* What an instruction with immediate imm does with registers gpr, in a
\* memory and CSR file that hold the word held: the register it writes and
\* the value, the pc that follows, and the word it accesses and stores.
Nothing == [rd |-> 0, value |-> {}, pc |-> {2}, address |-> {}, data |-> {}]
Effect(i, imm, held, gpr) ==
  LET x == gpr[i.rs1]
      y == gpr[i.rs2]
      Writes(value) == [Nothing EXCEPT !.rd = i.rd, !.value = value]
  IN  CASE i.case \in {"lui", "auipc"} -> Writes(imm)
        [] i.case = "jal" -> [Writes({2}) EXCEPT !.pc = imm]
        [] i.case = "jalr" -> [Writes({2}) EXCEPT !.pc = Plus(x, imm) \ {0, 1}]
        [] i.case = "branch" ->
             IF Taken(i.op, x, y) THEN [Nothing EXCEPT !.pc = imm] ELSE Nothing
        [] i.case = "load" -> [Writes(held) EXCEPT !.address = Plus(x, imm)]
        [] i.case = "store" -> [Nothing EXCEPT !.address = Plus(x, imm), !.data = y]
        [] i.case = "immediate" -> Writes(Binary(i.op, x, imm))
        [] i.case = "unary" -> Writes(Unary(i.op, x))
        [] i.case = "register" -> Writes(Binary(i.op, x, y))
        [] i.case = "atomic" -> [Writes(held) EXCEPT !.address = x,
                                                     !.data = Computed(i.op, held, y)]
        [] i.case = "csr" -> [Writes(held) EXCEPT !.data = x]
        [] i.case = "csri" -> [Writes(held) EXCEPT !.data = Word(i.rs1)]
        [] i.case = "fence" -> Nothing
=============================================================================
