------------------------------ MODULE AddressText ------------------------------
(***************************************************************************)
(* How an account of a transaction is printed: encodePubKey of             *)
(* app/src/parser_encoding.c and base32_encode of app/src/base32.c, on the *)
(* accounts that KeySearch finds.                                          *)
(*                                                                         *)
(* A text is the sequence of its base32 digits, 0 to 31, but for "Zero".   *)
(***************************************************************************)
EXTENDS KeySearch

CONSTANT Checksum(_)    \* the last four bytes of the SHA-512/256 of a key

PK_LEN_25519 == 32
CHECKSUM_LEN == 4
\* The smallest buffer an address is printed to: char buff[65].
BUFF_SIZE == 65

\* A digit is taken from the top of the bits left over, once there are five.
\* (The bits above them stay in the buffer of the code and are never read again.)
Digit(loop) == loop.buffer \div 2^(loop.bitsLeft - 5)

\* Mutant: the last digit is not filled up.
RefillUnpadded(data, loop) ==
    IF loop.bitsLeft >= 5 THEN loop
    ELSE IF loop.next < Len(data)
      THEN [loop EXCEPT !.buffer = 256 * @ + data[loop.next + 1], !.next = @ + 1, !.bitsLeft = @ + 8]
    ELSE [loop EXCEPT !.bitsLeft = 5]

Refill(data, loop) ==
    IF loop.bitsLeft >= 5 THEN loop
    ELSE IF loop.next < Len(data)
      THEN [loop EXCEPT !.buffer = 256 * @ + data[loop.next + 1], !.next = @ + 1, !.bitsLeft = @ + 8]
    ELSE [loop EXCEPT !.buffer = @ * 2^(5 - loop.bitsLeft), !.bitsLeft = 5]

TakeDigit(loop) ==
    [loop EXCEPT !.text = Append(@, Digit(loop)),
                 !.buffer = @ % 2^(loop.bitsLeft - 5),
                 !.bitsLeft = @ - 5]

Round(data, loop) ==
    IF loop.bitsLeft > 0 \/ loop.next < Len(data) THEN TakeDigit(Refill(data, loop)) ELSE loop

\* Each round of the loop adds a digit, so that resultLen bounds the rounds; a text
\* that leaves no room for its terminator is none.
base32_encode(data, resultLen) ==
    LET begin == [buffer |-> data[1], next |-> 1, bitsLeft |-> 8, text |-> <<>>]
        after[i \in 0..resultLen] == IF i = 0 THEN begin ELSE Round(data, after[i - 1])
        text == after[resultLen].text
    IN  IF data = <<>> \/ Len(text) >= resultLen THEN <<>> ELSE text

encodePubKey(publicKey, bufferLen) ==
    IF bufferLen < 2 * PK_LEN_25519 + 1 THEN <<>>
    ELSE base32_encode(publicKey \o Checksum(publicKey), bufferLen)

\* Mutant: one byte is looked at.
first_zero_key(key) == key[1] = 0

all_zero_key(key) == \A i \in DOMAIN key : key[i] = 0

\* The accounts a transaction can show; those of an asset's parameters may be unset.
Roles == {"m", "r", "f", "c"}
AddressKeys == Roles \union {"snd", "rekey", "rcv", "close", "arcv", "asnd", "aclose", "fadd"}
IsAddress(f) == f.key \in AddressKeys \/ (f.key = "apat" /\ f.element > 0)

ASSUME AddressAssumption ==
    /\ ACCT_SIZE \in 1..PK_LEN_25519
    /\ \A k \in AddressKeys : k \in DOMAIN BinSize /\ BinSize[k] = ACCT_SIZE
    /\ \A key \in [1..ACCT_SIZE -> 0..255] : Checksum(key) \in [1..CHECKSUM_LEN -> 0..255]

\* What is printed for an account that is not set; no address is as short.
Zero == <<"Zero">>

TextOf(f) ==
    IF f.key \in Roles /\ all_zero_key(f.bytes) THEN Zero ELSE encodePubKey(f.bytes, BUFF_SIZE)

-----------------------------------------------------------------------------
(* What the text says.                                                       *)

\* Bit number i, from 0, of a sequence of numbers of width bits each.
Bit(s, width, i) == (s[i \div width + 1] \div 2^(width - 1 - (i % width))) % 2

\* The address on the screen names the account that will be signed: it has a digit for
\* every five bits of the key and its checksum, each bit in its place and the rest zero,
\* so that two keys never look alike; and "Zero" stands for the zero key alone.  The
\* bytes are carried over in pieces of five bits, and only the last is filled up.
AddressNamesKey ==
    \A f \in {g \in found : IsAddress(g)} :
        IF TextOf(f) = Zero THEN ToSet(f.bytes) = {0}
        ELSE LET data == f.bytes \o Checksum(f.bytes)
                 text == TextOf(f)
                 bits == 8 * Len(data)
             IN  /\ ToSet(text) \subseteq 0..31
                 /\ Len(text) = (bits + 4) \div 5
                 /\ \A i \in 0..(5 * Len(text) - 1) :
                       Bit(text, 5, i) = IF i < bits THEN Bit(data, 8, i) ELSE 0

===============================================================================
