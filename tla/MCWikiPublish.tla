---------------------------- MODULE MCWikiPublish -----------------------------
(* Instance of WikiPublish for TLC.  a is 1.0, b is 2.0, which drops a page of *)
(* 1.0 and adds one; c is a later commit that still says 1.0, d one that says  *)
(* 2.0 and leaves a file in its bundle that is no page; e and f say 2.0 and    *)
(* their Python, or TypeScript, binding declares a C long where the header has *)
(* int64_t.                                                                    *)
EXTENDS WikiPublish

T(v, pages, stray) == [versions |-> {v}, pages |-> pages, links |-> {"Home"},
                       foreign |-> {}, covered |-> TRUE, stray |-> stray]
MCTree == [a |-> T(1, {"Home", "P"}, FALSE), b |-> T(2, {"Home", "Q"}, FALSE),
           c |-> T(1, {"Home", "P"}, FALSE), d |-> T(2, {"Home", "Q"}, TRUE),
           e |-> T(2, {"Home", "Q"}, FALSE), f |-> T(2, {"Home", "Q"}, FALSE)]

F(name, kind, result, args) == [name |-> name, kind |-> kind, result |-> result, args |-> args]
Header == << F("zf_free", "free", C("void", 0), <<C("void", 1)>>),
             F("zf_num_hdus", "plain", C("int", 0), <<C("ZfFits", 1), C("int64_t", 1)>>),
             F("zf_read", "plain", C("int", 0), <<C("ZfFits", 1), C("int64_t", 0)>>) >>
Python(i64) == << F("zf_free", "free", "None", <<"VOID">>),
                  F("zf_num_hdus", "plain", "INT", <<"VOID", "PLL">>),
                  F("zf_read", "plain", "INT", <<"VOID", i64>>) >>
TypeScript(i64) == << F("zf_free", "free", "void", <<"handle">>),
                      F("zf_num_hdus", "plain", "int", <<"handle", "buf">>),
                      F("zf_read", "plain", "int", <<"handle", i64>>) >>
MCAbi == [s \in DOMAIN MCTree |->
            [header |-> Header, python |-> Python(IF s = "e" THEN "LONG" ELSE "I64"),
             typescript |-> TypeScript(IF s = "f" THEN "long" ELSE "i64")]]
MCFirst == <<"a", "b">>
=============================================================================
