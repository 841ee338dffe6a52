---------------------------- MODULE MCAlgorithms ----------------------------
(***************************************************************************)
(* The code that computes and keeps no state to speak of, against what it  *)
(* is meant to compute.  A behaviour is about one subject: a pair of       *)
(* operands, for the instructions of Alu; an instruction of any form, for  *)
(* what the trace says of it; or the accesses to a PC-stride prefetcher.   *)
(***************************************************************************)
EXTENDS Alu, MCPrefetchers

VARIABLE subject

algorithmVars == <<table, issued, touched, subject>>

Instruction(cases, ops) ==
  [case : cases, op : ops, rd : {0, 1}, rs1 : {0, 1, 2}, rs2 : {0, 1, 2}]

\* An instruction of every form.
Instructions ==
  Instruction({"lui", "auipc", "jal", "jalr", "load", "store", "csr", "csri", "fence"}, {""})
    \cup Instruction({"branch"}, BranchOps)
    \cup Instruction({"immediate"}, ImmediateOps)
    \cup Instruction({"unary"}, UnaryOps)
    \cup Instruction({"register"}, RegisterOps)
    \cup Instruction({"atomic"}, AmoKinds)

AlgorithmInit ==
  /\ Init
  /\ \/ subject = [about |-> "accesses"]
     \/ subject \in [about : {"operands"}, a : Words, b : Words]
     \/ subject \in [about : {"instruction"}, i : Instructions]

AlgorithmNext == subject.about = "accesses" /\ Next /\ UNCHANGED subject

AlgorithmSpec == AlgorithmInit /\ [][AlgorithmNext]_algorithmVars

-----------------------------------------------------------------------------
(* What the instructions are meant to compute, in integers                 *)

Size == 2 ^ Width
a == subject.a
b == subject.b
A == Number(a)
B == Number(b)
SA == Signed(a)
SB == Signed(b)

ProductsExact ==
  LET low == Number(MulDiv("mul", a, b))
  IN  /\ Number(MulDiv("mulhu", a, b)) * Size + low = A * B
      /\ Signed(MulDiv("mulhsu", a, b)) * Size + low = SA * B
      /\ Signed(MulDiv("mulh", a, b)) * Size + low = SA * SB

\* Bit k of the product of two polynomials over the field of two elements.
Polynomial == {k \in 0 .. 2 * Width - 2 :
                 Cardinality({i \in a : k - i \in b}) % 2 = 1}

CarrylessExact ==
  /\ clmul(a, b) = Polynomial \cap BitIndices
  /\ clmulh(a, b) = {k - Width : k \in {j \in Polynomial : j >= Width}}
  /\ clmulr(a, b) = {k - Width + 1 : k \in {j \in Polynomial : j >= Width - 1}}

\* By zero the quotient has all bits set and the remainder is the dividend;
\* a signed quotient that overflows is the dividend (exec.cpp:1289-1321).
\* The remainder has the dividend's sign.
DivisionExact ==
  LET q == Signed(MulDiv("div", a, b))
      r == Signed(MulDiv("rem", a, b))
      uq == Number(MulDiv("divu", a, b))
      ur == Number(MulDiv("remu", a, b))
  IN  IF b = {} THEN q = -1 /\ r = SA /\ uq = Size - 1 /\ ur = A
      ELSE /\ uq * B + ur = A /\ ur < B
           /\ r * SA >= 0 /\ Abs(r) < Abs(SB)
           /\ IF SB = -1 /\ SA = -(Size \div 2) THEN q = SA ELSE q * SB + r = SA

SumsExact ==
  /\ Number(AddLike("add", a, b)) = (A + B) % Size
  /\ Number(AddLike("sub", a, b)) = (A - B) % Size
  /\ Number(AddLike("sh1add", a, b)) = (2 * A + B) % Size
  /\ Number(AddLike("sh2add", a, b)) = (4 * A + B) % Size
  /\ Number(AddLike("sh3add", a, b)) = (8 * A + B) % Size

OrderExact ==
  /\ AddLike("slt", a, b) = Truth(SA < SB) /\ AddLike("sltu", a, b) = Truth(A < B)
  /\ {AddLike("min", a, b), AddLike("max", a, b)} = {a, b}
  /\ {AddLike("minu", a, b), AddLike("maxu", a, b)} = {a, b}
  /\ Signed(AddLike("min", a, b)) <= Signed(AddLike("max", a, b))
  /\ Number(AddLike("minu", a, b)) <= Number(AddLike("maxu", a, b))
  /\ Taken("beq", a, b) = (A = B) /\ Taken("bne", a, b) = (A # B)
  /\ Taken("blt", a, b) = (SA < SB) /\ Taken("bge", a, b) = (SA >= SB)
  /\ Taken("bltu", a, b) = (A < B) /\ Taken("bgeu", a, b) = (A >= B)
  /\ \A kind \in {"min", "max", "minu", "maxu"} :
       Computed(kind, a, b) = AddLike(kind, a, b)

\* A rotation multiplies by a power of two modulo 2^Width - 1.
ShiftsExact ==
  LET s == B % Width
  IN  /\ Number(ShiftLike("sll", a, b)) = (A * 2 ^ s) % Size
      /\ Number(ShiftLike("srl", a, b)) = A \div 2 ^ s
      /\ Signed(ShiftLike("sra", a, b)) = SA \div 2 ^ s
      /\ Number(ShiftLike("rol", a, b)) % (Size - 1) = (A * 2 ^ s) % (Size - 1)
      /\ ShiftLike("ror", ShiftLike("rol", a, b), b) = a
      /\ Number(ShiftLike("bset", a, b)) - Number(ShiftLike("bclr", a, b)) = 2 ^ s
      /\ {ShiftLike("binv", a, b), a} = {ShiftLike("bset", a, b), ShiftLike("bclr", a, b)}
      /\ Number(ShiftLike("bext", a, b)) = (A \div 2 ^ s) % 2

Bits(op) == Number(Bitwise(op, a, b))
BitwiseExact ==
  /\ Bits("xor") + 2 * Bits("and") = A + B
  /\ Bits("or") + Bits("and") = A + B
  /\ Bits("xor") + Bits("xnor") = Size - 1
  /\ Bits("andn") + Bits("and") = A
  /\ Bits("orn") - Bits("and") = Size - 1 - B
  /\ LET half == 2 ^ (2 * Byte)
         byte == 2 ^ Byte
     IN  /\ Bits("pack") = (A % half) + half * (B % half)
         /\ Bits("packh") = (A % byte) + byte * (B % byte)

UnaryExact ==
  LET byte == 2 ^ Byte
      Digit(n, k) == (n \div 2 ^ (k * Byte)) % byte
      n(op) == Number(Unary(op, a))
  IN  /\ IF A = 0 THEN n("clz") = Width /\ n("ctz") = Width
         ELSE /\ A \div 2 ^ (Width - 1 - n("clz")) = 1
              /\ A % 2 ^ n("ctz") = 0 /\ (A \div 2 ^ n("ctz")) % 2 = 1
      /\ (Signed(Unary("sext.b", a)) - A) % byte = 0
      /\ Signed(Unary("sext.b", a)) \in -(byte \div 2) .. (byte \div 2) - 1
      /\ (Signed(Unary("sext.h", a)) - A) % (byte * byte) = 0
      /\ Signed(Unary("sext.h", a)) \in -((byte * byte) \div 2) .. ((byte * byte) \div 2) - 1
      /\ \A k \in 0 .. 3 : /\ Digit(n("rev8"), k) = Digit(A, 3 - k)
                           /\ Digit(n("orcb"), k) = IF Digit(A, k) = 0 THEN 0 ELSE byte - 1

\* What is stored over a is loaded again, and the other bytes keep.
MemoryExact ==
  \A size \in {1, 2, 4} : \A offset \in {o \in 0 .. 3 : o % size = 0} :
    LET word == Stored(a, b, size, offset)
        range == 2 ^ (size * Byte)
        low == Number(Loaded(word, size, offset, FALSE))
        extended == Signed(Loaded(word, size, offset, TRUE))
    IN  /\ low = B % range
        /\ size < 4 => extended = low - (IF 2 * low >= range THEN range ELSE 0)
        /\ \A k \in 0 .. 3 \ offset .. offset + size - 1 :
             Loaded(word, 1, k, FALSE) = Loaded(a, 1, k, FALSE)

\* The instructions compute, for every pair of operands, what their names
\* say: products and their halves, with carries and without, quotients and
\* remainders at zero and at the overflow, sums, comparisons of either kind,
\* shifts, rotations, bits, bytes, and what a load finds after a store
\* (exec.cpp:986-1466, 1490-1523).
ArithmeticExact ==
  subject.about = "operands" =>
    /\ ProductsExact /\ CarrylessExact /\ DivisionExact /\ SumsExact /\ OrderExact
    /\ ShiftsExact /\ BitwiseExact
    /\ b = {} => UnaryExact
    /\ MemoryExact

-----------------------------------------------------------------------------
(* What the trace says of an instruction                                   *)

\* Words enough for each instruction to tell its operands apart.
Samples == {{}, {0}, {1, 2}, {Width - 1}}
RegisterFiles == {gpr \in [{0, 1, 2} -> Samples] : gpr[0] = {}}

\* The registers on whose values the effect of the instruction depends.
Depends(i) ==
  {r \in {1, 2} : \E gpr \in RegisterFiles, w, imm, held \in Samples :
     Effect(i, imm, held, [gpr EXCEPT ![r] = w]) # Effect(i, imm, held, gpr)}

\* Two operands that are one register may cancel, and register zero may make
\* the other operand irrelevant.
MayCancel(i) == i.case \in {"register", "branch"} /\ {i.rs1, i.rs2} # {1, 2}

\* The registers in the trace are the ones an instruction depends on and
\* writes, no fewer, or the timing model would issue it too early, and no
\* more: "Use semantic register usage (not raw bitfields) to avoid false RAW
\* deps" (exec.cpp:505).
RegistersExact ==
  subject.about = "instruction" =>
    LET i == subject.i
        sources == {Reported(i).rs1, Reported(i).rs2} \ {0}
        written == {Effect(i, imm, held, gpr).rd :
                      gpr \in RegisterFiles, imm, held \in Samples}
    IN  /\ written \subseteq {Reported(i).rd}
        /\ Depends(i) \subseteq sources
        /\ ~MayCancel(i) => Depends(i) = sources
=============================================================================
