----------------------------- MODULE MCBlobLoad -----------------------------
(* Payloads of three blocks: intact ones with and without a directory CRC  *)
(* and a load address, with a stored block damaged, with a header the      *)
(* checks refuse, and one that is not in the ROM.                          *)
EXTENDS BlobLoad

Payload(known, crc, based, header, damaged, whole) ==
  [known |-> known, crc |-> crc, based |-> based, header |-> header, blocks |-> 3,
   damaged |-> damaged, whole |-> whole]

MCPayloads ==
  { Payload(TRUE, TRUE, TRUE, TRUE, {}, TRUE),
    Payload(TRUE, FALSE, FALSE, TRUE, {}, TRUE),
    Payload(TRUE, FALSE, TRUE, TRUE, {}, FALSE),
    Payload(TRUE, TRUE, TRUE, TRUE, {2}, TRUE),
    Payload(TRUE, FALSE, TRUE, TRUE, {1}, FALSE),
    Payload(TRUE, FALSE, FALSE, FALSE, {}, TRUE),
    Payload(FALSE, FALSE, FALSE, FALSE, {}, TRUE) }
=============================================================================
