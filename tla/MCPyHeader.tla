------------------------------ MODULE MCPyHeader ------------------------------
(* Instance of PyHeader for TLC: a header with a structural keyword, a keyword *)
(* that is there twice, an empty card and one comment.                         *)
EXTENDS PyHeader

MCCards == << Card("BITPIX", "1"), Card("A", "1"), Card("A", "2"), Card("", ""),
              Card("COMMENT", "s") >>
MCTexts == { <<"t">>, <<"">>, <<"t", "t">> }
=============================================================================
