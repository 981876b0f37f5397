----------------------------- MODULE MCChecksum ------------------------------
(* Instance of Checksum for TLC: a HDU without data whose card takes every value,   *)
(* so that every byte is encoded; and two HDUs with data, the second of which *)
(* carries the two cards or not.                                              *)
EXTENDS Checksum

MCHeader(card) == [card |-> card, datasum |-> 0, checksum |-> Placeholder]
MCHdu(card, data, has) ==
    [mem |-> MCHeader(card), disk |-> MCHeader(card), data |-> data, has |-> has]
MCHdus ==
    {<<MCHdu(card, <<>>, TRUE)>> : card \in Word}
    \cup {<<MCHdu(143, <<17, 254>>, TRUE), MCHdu(7, <<200>>, has)>> : has \in BOOLEAN}
MCValue == {0, 255}
=============================================================================
