----------------------------- MODULE FormatRules -----------------------------
(***************************************************************************)
(* The rules of a format (format.rs, detect.rs, checksum.rs): whether a file   *)
(* is of it.                                                                 *)
(*                                                                         *)
(* A file is a sequence of bytes in "words" that is read as in Readers.  What  *)
(* cannot be read, because of an error or because the file is shorter, never   *)
(* matches.  Values are unsigned: numeric_value turns all of them to 64 bits.  *)
(***************************************************************************)
EXTENDS Readers, Bitwise, SequencesExt

CONSTANTS
    Byte,           \* the values of a byte, 256
    Part,           \* what the sum of ics starts with, 0x50617274
    BootSum,        \* what the words of a TOS boot sector sum up to, 0x1234
    Absent          \* None, of the fields of a rule

(* Rule: a leaf looks at bytes; "then" has rules that have to match too.      *)
AnyOf(rules) == [kind |-> "any", rules |-> rules]
AllOf(rules) == [kind |-> "all", rules |-> rules]
Leaf(offset, type, value) ==
    [kind |-> "leaf", offset |-> offset, type |-> type, value |-> value, op |-> "=",
     mask |-> Absent, then |-> <<>>, length |-> Absent, algorithm |-> "adfs", key |-> <<>>]

(* A negative offset counts from the end and stops at the start.              *)
ResolveOffset(offset, size) == IF offset >= 0 THEN offset ELSE Max({0, size + offset})

(* checksum.rs *)
Sum(bytes, from, n) == FoldSeq(LAMBDA b, s : (s + b) % n, from, bytes)
Big(bytes) == FoldLeft(LAMBDA v, b : v * Byte + b, 0, bytes)
Little(bytes) == Big(Reverse(bytes))

(* The bytes before the last, from the end, with the carry added in the next.  *)
Adfs(data) ==
    FoldRight(LAMBDA b, s : (s % Byte) + (s \div Byte) + b, Front(data), 0) % Byte = Last(data)

AtariBoot(data) ==
    FoldLeftDomain(LAMBDA s, i : IF i % 2 = 1 THEN (s + data[i] * Byte + data[i + 1]) % (Byte * Byte)
                                 ELSE s, 0, data) = BootSum

Ics(data) ==
    LET n == Len(data) - 4 IN
    Sum(SubSeq(data, 1, n), Part, Byte ^ 4) = Little(SubSeq(data, n + 1, n + 4))

(* Not where the signature of an MBR is, 55 aa. *)
Powertec(data) ==
    /\ SubSeq(data, Len(data) - 1, Len(data)) # <<85 % Byte, 170 % Byte>>
    /\ Sum(Front(data), 42 % Byte, Byte) = Last(data)

(* All of them are of a sector: the first one of what was read. *)
Checksum(algorithm, data) ==
    LET sector == SubSeq(data, 1, Sector) IN
    /\ Len(data) >= Sector
    /\ CASE algorithm = "adfs" -> Adfs(sector)
         [] algorithm = "atari_boot" -> AtariBoot(sector)
         [] algorithm = "ics" -> Ics(sector)
         [] algorithm = "powertec" -> Powertec(sector)
         [] OTHER -> FALSE

XorDecrypt(data, key) ==
    IF key = <<>> THEN data
    ELSE [i \in DOMAIN data |-> data[i] ^^ key[((i - 1) % Len(key)) + 1]]
-----------------------------------------------------------------------------
(* read_value_generic: the bytes a number has, 0 for a type that is not known. *)
Width(type) ==
    CASE type \in {"byte", "u8", "i8"} -> 1
      [] type \in {"le16", "u16", "i16", "be16"} -> 2
      [] type \in {"le32", "u32", "i32", "be32"} -> 4
      [] type \in {"le64", "u64", "i64", "be64"} -> 8
      [] OTHER -> 0

Number(type, bytes) ==
    IF type \in {"be16", "be32", "be64"} THEN Big(bytes) ELSE Little(bytes)

Compare(a, e, op) ==
    CASE op = "=" -> a = e
      [] op = "!=" -> a # e
      [] op = "&" -> a & e = e
      [] op = "^" -> a = e
      [] op = "<" -> a < e
      [] op = ">" -> a > e
      [] op = "<=" -> a <= e
      [] op = ">=" -> a >= e
      [] OTHER -> FALSE

OrElse(x, default) == IF x = Absent THEN default ELSE x

(* The types that have a value.  "ascii" has a set of strings for its pattern. *)
ValueMatches(file, at, rule) ==
    CASE rule.type = "string" -> ReadFrom(file, at, Len(rule.value)) = rule.value
      [] rule.type = "ascii" ->
            /\ rule.length # Absent
            /\ LET s == ReadFrom(file, at, rule.length) IN
               /\ Len(s) = rule.length /\ \A b \in ToSet(s) : b < Byte \div 2
               /\ s \in rule.value
      [] OTHER ->
            LET n == Width(rule.type)
                s == ReadFrom(file, at, n)
            IN  /\ n # 0 /\ Len(s) = n
                /\ Compare(IF rule.mask = Absent THEN Number(rule.type, s)
                           ELSE Number(rule.type, s) & rule.mask, rule.value, rule.op)

(* matches_rule_dyn, match_rule_on_bytes.  The rules under "xor" look at what   *)
(* was decrypted, and those of "then" at the file, from its start.             *)
RECURSIVE Matches(_, _)
Matches(file, rule) ==
    LET at == ResolveOffset(rule.offset, Len(file.words))   \* of a leaf
        every(f) == \A r \in ToSet(rule.then) : Matches(f, r)
    IN  CASE rule.kind = "any" -> \E r \in ToSet(rule.rules) : Matches(file, r)
          [] rule.kind = "all" -> \A r \in ToSet(rule.rules) : Matches(file, r)
          [] rule.kind = "leaf" ->
                CASE rule.type = "checksum" ->
                        LET n == OrElse(rule.length, Sector)
                            s == ReadFrom(file, at, n)
                        IN  Len(s) = n /\ Checksum(rule.algorithm, s)
                  [] rule.type = "xor" ->
                        LET n == OrElse(rule.length, Sector \div 2)
                            s == ReadFrom(file, at, n)
                        IN  \/ rule.then = <<>>
                            \/ Len(s) = n /\ every([step |-> n + 1, words |-> XorDecrypt(s, rule.key)])
                  [] OTHER -> (rule.value = Absent \/ ValueMatches(file, at, rule)) /\ every(file)
=============================================================================
