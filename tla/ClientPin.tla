----------------------------- MODULE ClientPin -----------------------------
(***************************************************************************)
(* What getInfo says of an authenticator and what is made of a typed PIN   *)
(* (src/src/ctap2_client_pin.rs, src/src/authenticator_info.rs).           *)
(*                                                                         *)
(* A PIN is its name, which is that of the text whatever its Unicode form, *)
(* and what the checks see of it: whether it is UTF-8, whether it contains *)
(* a NUL, its bytes and code points, and how many of those points NFC      *)
(* composes away.                                                          *)
(***************************************************************************)
EXTENDS Integers, Sequences

Pin == {p \in [name : STRING, utf8 : BOOLEAN, nul : BOOLEAN,
                bytes : Nat, chars : Nat, marks : Nat] :
          /\ p.marks <= p.chars /\ p.marks <= p.bytes
          /\ ~p.utf8 => p.marks = 0}

MaxPinBytes == 63
DefaultMinPinLength == 4

\* Mutant: a PIN is used as it was typed.
AsTyped(p) == p

\* normalize_pin: NFC, if it is UTF-8.
NormalizePin(p) ==
  IF p.utf8 THEN [p EXCEPT !.bytes = @ - p.marks, !.chars = @ - p.marks, !.marks = 0]
  ELSE p

\* Mutant: a NUL is not looked for.
NulAllowed(p, min) ==
  LET n == NormalizePin(p) IN p.utf8 /\ n.bytes <= MaxPinBytes /\ n.chars >= min

\* validate_new_pin lets the PIN through.
ValidNewPin(p, min) ==
  LET n == NormalizePin(p) IN
  p.utf8 /\ ~n.nul /\ n.bytes <= MaxPinBytes /\ n.chars >= min

\* classify_pin, by the boundaries of a passphrase.
ClassifyPin(p) ==
  LET n == NormalizePin(p) IN
  IF ~p.utf8 \/ n.chars = 0 THEN "unclassified"
  ELSE IF n.chars < 8 THEN "passphrase_less_than_8_chars"
  ELSE IF n.chars < 12 THEN "passphrase_8_to_11_chars"
  ELSE "passphrase_12_or_more_chars"

\* encrypt, under the keys derived from a key agreement, and decrypt: at most
\* one value, none under the keys of another agreement.
Encrypt(agreed, plain) == [under |-> agreed, plain |-> plain]
Decrypt(agreed, cipher) == IF cipher.under = agreed THEN <<cipher.plain>> ELSE <<>>

-----------------------------------------------------------------------------
(* getInfo, read twice: by the PIN exchange and for the host.              *)

Field(map, key, default) == IF key \in DOMAIN map THEN map[key] ELSE default

\* The first listed protocol this crate implements, otherwise the first.
PinProtocol(list) ==
  LET known == {i \in DOMAIN list : list[i] \in {1, 2}} IN
  IF known = {} THEN 1
  ELSE list[CHOOSE i \in known : \A j \in known : i <= j]

\* clientPin true, false or absent.
PinStateOf(info) ==
  CASE "clientPin" \notin DOMAIN Field(info, 4, [none |-> TRUE]) -> "unsupported"
    [] OTHER -> IF info[4].clientPin THEN "set" ELSE "not_set"

\* parse_pin_info.
ParsePinInfo(info) ==
  [protocol |-> PinProtocol(Field(info, 6, <<>>)), state |-> PinStateOf(info),
   min |-> Field(info, 13, DefaultMinPinLength)]

\* parse_get_info.
ParseGetInfo(info) ==
  [extensions |-> Field(info, 2, {}), state |-> PinStateOf(info),
   force |-> Field(info, 12, FALSE), protocols |-> Field(info, 6, <<>>)]

\* Mutant: one that lists no protocol is taken to have none.
MustListProtocol(info, retries, performsUv) ==
  /\ "previewSign" \in info.extensions
  /\ \/ performsUv
     \/ /\ info.state # "unsupported"
        /\ ~info.force
        /\ retries # 0
        /\ \E i \in DOMAIN info.protocols : info.protocols[i] \in {1, 2}

\* suitability: retries is -1 where they were not asked for.
Suitable(info, retries, performsUv) ==
  /\ "previewSign" \in info.extensions
  /\ \/ performsUv
     \/ /\ info.state # "unsupported"
        /\ ~info.force
        /\ retries # 0
        /\ \/ info.protocols = <<>>
           \/ \E i \in DOMAIN info.protocols : info.protocols[i] \in {1, 2}
=============================================================================
