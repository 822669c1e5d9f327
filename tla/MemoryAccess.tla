---------------------------- MODULE MemoryAccess ----------------------------
(***************************************************************************)
(* The loads and stores of Sparc::run() in sparc.cxx, and the order of the *)
(* bytes in the guest's memory (sparc.hxx), on a host that has them the    *)
(* other way round.  Each behaviour is one instruction on registers and a  *)
(* memory that hold anything; addresses are aligned, as compilers make     *)
(* them, and no instruction looks at whether they are.                     *)
(***************************************************************************)
EXTENDS Integers

CONSTANTS
    Radix,       \* the values of a byte: 256 in the emulator
    Bytes,       \* bound: the bytes of memory
    Values       \* bound: the words the registers hold

VARIABLES
    mem,         \* the bytes of memory
    r,           \* the integer registers; r[0] is g0
    f,           \* the floating-point registers, by their bits
    fsr,
    access         \* interface: the instruction, and all of the above before it

vars == <<mem, r, f, fsr, access>>

Address == 0..(Bytes - 1)
Byte == 0..(Radix - 1)
Registers == 0..3
Idle == [name |-> "none"]

Init ==
    /\ mem \in [Address -> Byte]
    /\ r \in {g \in [Registers -> {0} \cup Values] : g[0] = 0}
    /\ f = r /\ fsr = r[3]
    /\ access = Idle

-----------------------------------------------------------------------------
(* sparc.hxx *)

\* A word of one, two or four bytes is taken apart and put together as the host
\* does, the byte at the lowest address being the lowest.
Place(k) == << 1, Radix, Radix * Radix, Radix * Radix * Radix,
               Radix * Radix * Radix * Radix >>[k + 1]
ByteOf(word, k) == (word \div Place(k)) % Radix
Together(byte(_), n) ==
    byte(0) + (IF n = 1 THEN 0 ELSE byte(1) * Place(1))
            + (IF n < 4 THEN 0 ELSE byte(2) * Place(2) + byte(3) * Place(3))

\* Mutant of flip_endian: the halves of a word change places, not its bytes.
flip_endianHalves(word, n) ==
    Together(LAMBDA k : ByteOf(word, (k + (n \div 2)) % n), n)

flip_endian(word, n) == Together(LAMBDA k : ByteOf(word, n - 1 - k), n)

\* getui8, getui16 and getui32, and setui8 to setui32, for n bytes.
getui(n, address) == flip_endian(Together(LAMBDA k : mem[address + k], n), n)

setui(m, n, address, val) ==
    LET flipped == flip_endian(val % Place(n), n)
    IN  [a \in Address |-> IF a \in address..(address + n - 1)
                           THEN ByteOf(flipped, a - address) ELSE m[a]]

-----------------------------------------------------------------------------
(* The instructions *)

Instruction(name, n, rd, address) ==
    /\ access' = [name |-> name, n |-> n, rd |-> rd, address |-> address,
                mem |-> mem, r |-> r, f |-> f, fsr |-> fsr]

\* g0 is never written.
Written(regs, rd, word) == IF rd = 0 THEN regs ELSE [regs EXCEPT ![rd] = word]

\* ldub, lduh and ld, of 1, 2 and 4 bytes; ldsb and ldsh extend the sign.
Ld(n, rd, address) ==
    /\ r' = Written(r, rd, getui(n, address))
    /\ UNCHANGED <<mem, f, fsr>>
    /\ Instruction("ld", n, rd, address)

Lds(n, rd, address) ==
    LET val == getui(n, address)
        extended == IF val < Place(n) \div 2 THEN val ELSE val + Place(4) - Place(n)
    IN  /\ r' = Written(r, rd, extended)
        /\ UNCHANGED <<mem, f, fsr>>
        /\ Instruction("lds", n, rd, address)

\* The register after rd is written even if rd is g0.
Ldd(rd, address) ==
    /\ r' = [Written(r, rd, getui(4, address)) EXCEPT ![rd + 1] = getui(4, address + 4)]
    /\ UNCHANGED <<mem, f, fsr>>
    /\ Instruction("ldd", 8, rd, address)

St(n, rd, address) ==
    /\ mem' = setui(mem, n, address, r[rd])
    /\ UNCHANGED <<r, f, fsr>>
    /\ Instruction("st", n, rd, address)

Std(rd, address) ==
    /\ mem' = setui(setui(mem, 4, address, r[rd]), 4, address + 4, r[rd + 1])
    /\ UNCHANGED <<r, f, fsr>>
    /\ Instruction("std", 8, rd, address)

Ldstub(rd, address) ==
    /\ r' = Written(r, rd, getui(1, address))
    /\ mem' = setui(mem, 1, address, Radix - 1)
    /\ UNCHANGED <<f, fsr>>
    /\ Instruction("ldstub", 1, rd, address)

Swap(rd, address) ==
    /\ mem' = setui(mem, 4, address, r[rd])
    /\ r' = Written(r, rd, getui(4, address))
    /\ UNCHANGED <<f, fsr>>
    /\ Instruction("swap", 4, rd, address)

\* A float is moved by its bits.
Ldf(rd, address) ==
    /\ f' = [f EXCEPT ![rd] = getui(4, address)]
    /\ UNCHANGED <<mem, r, fsr>>
    /\ Instruction("ldf", 4, rd, address)

Lddf(rd, address) ==
    /\ f' = [f EXCEPT ![rd] = getui(4, address), ![rd + 1] = getui(4, address + 4)]
    /\ UNCHANGED <<mem, r, fsr>>
    /\ Instruction("lddf", 8, rd, address)

Stf(rd, address) ==
    /\ mem' = setui(mem, 4, address, f[rd])
    /\ UNCHANGED <<r, f, fsr>>
    /\ Instruction("stf", 4, rd, address)

Stdf(rd, address) ==
    /\ mem' = setui(setui(mem, 4, address, f[rd]), 4, address + 4, f[rd + 1])
    /\ UNCHANGED <<r, f, fsr>>
    /\ Instruction("stdf", 8, rd, address)

Fsr(address) ==
    \/ /\ fsr' = getui(4, address) /\ UNCHANGED <<mem, r, f>>
       /\ Instruction("ldfsr", 4, 0, address)
    \/ /\ mem' = setui(mem, 4, address, fsr) /\ UNCHANGED <<r, f, fsr>>
       /\ Instruction("stfsr", 4, 0, address)

Aligned(n) == {a \in Address : a % n = 0 /\ a + n <= Bytes}
Even == {0, 2}

Next ==
    /\ access = Idle
    /\ \/ \E n \in {1, 2, 4}, rd \in Registers : \E a \in Aligned(n) : Ld(n, rd, a) \/ St(n, rd, a)
       \/ \E n \in {1, 2}, rd \in Registers : \E a \in Aligned(n) : Lds(n, rd, a)
       \/ \E rd \in Even, a \in Aligned(8) : Ldd(rd, a) \/ Std(rd, a) \/ Lddf(rd, a) \/ Stdf(rd, a)
       \/ \E rd \in Registers, a \in Aligned(1) : Ldstub(rd, a)
       \/ \E rd \in Registers, a \in Aligned(4) : Swap(rd, a) \/ Ldf(rd, a) \/ Stf(rd, a)
       \/ \E a \in Aligned(4) : Fsr(a)

Spec == Init /\ [][Next]_vars

-----------------------------------------------------------------------------
(***************************************************************************)
(* Properties.                                                             *)
(***************************************************************************)

\* Big-endian numbers: of two halves of one the first is the higher.
HalfAt(m, address) == m[address] * Radix + m[address + 1]
WordAt(m, address) == HalfAt(m, address) * Place(2) + HalfAt(m, address + 2)
Part(m, address, n) ==
    IF n = 1 THEN m[address]
    ELSE IF n = 2 THEN HalfAt(m, address)
    ELSE IF n = 4 THEN WordAt(m, address)
    ELSE WordAt(m, address) * Place(4) + WordAt(m, address + 4)

\* Each register's place in a pair, as in one number.
Pair(regs, rd) == regs[rd] * Place(4) + regs[rd + 1]

IsOne(names) == access.name \in names

\* Whatever the widths of the accesses, the guest's memory is big-endian: a
\* load takes a number that is there, a store replaces one and no other byte,
\* pairs of registers are one number, g0 stays 0, and what a load and a store
\* do not name they leave alone (sparc.hxx:53-102; sparc.cxx:1364-1475).
MemoryIsBigEndian ==
    access # Idle =>
        LET before == Part(access.mem, access.address, access.n)
            after == Part(mem, access.address, access.n)
        IN  /\ r[0] = 0
            /\ \A g \in Registers : r[g] # access.r[g] =>
                   /\ IsOne({"ld", "lds", "ldd", "ldstub", "swap"})
                   /\ g = access.rd \/ (IsOne({"ldd"}) /\ g = access.rd + 1)
            /\ \A g \in Registers : f[g] # access.f[g] =>
                   /\ IsOne({"ldf", "lddf"})
                   /\ g = access.rd \/ (IsOne({"lddf"}) /\ g = access.rd + 1)
            /\ fsr # access.fsr => IsOne({"ldfsr"})
            /\ mem \in [Address -> Byte]
            /\ \A x \in Address : mem[x] # access.mem[x] =>
                   x \in access.address..(access.address + access.n - 1)
            /\ IsOne({"ld", "ldstub", "swap"}) /\ access.rd # 0 => r[access.rd] = before
            /\ IsOne({"lds"}) /\ access.rd # 0 =>
                   /\ r[access.rd] % Place(access.n) = before
                   /\ r[access.rd] \in 0..(Place(access.n) \div 2 - 1)
                          \cup (Place(4) - Place(access.n) \div 2)..(Place(4) - 1)
            /\ IsOne({"ldd"}) =>
                   Pair(r, access.rd) = IF access.rd = 0 THEN before % Place(4) ELSE before
            /\ IsOne({"ldf"}) => f[access.rd] = before
            /\ IsOne({"lddf"}) => Pair(f, access.rd) = before
            /\ IsOne({"ldfsr"}) => fsr = before
            /\ IsOne({"st", "swap"}) => after = access.r[access.rd] % Place(access.n)
            /\ IsOne({"std"}) => after = Pair(access.r, access.rd)
            /\ IsOne({"stf"}) => after = access.f[access.rd]
            /\ IsOne({"stdf"}) => after = Pair(access.f, access.rd)
            /\ IsOne({"stfsr"}) => after = access.fsr
            /\ IsOne({"ldstub"}) => after = Radix - 1
            /\ IsOne({"ld", "lds", "ldd", "ldf", "lddf", "ldfsr"}) => mem = access.mem
=============================================================================
