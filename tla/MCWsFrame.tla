----------------------------- MODULE MCWsFrame -----------------------------
\* Model-checking instance of WsFrame.
EXTENDS WsFrame

Keys == {<<>>, <<7, 131, 64, 255>>}

Text1(form, lens) == [fin : {TRUE}, op : {1}, form : {form}, key : Keys, n : lens]

\* Text frames in each form of the length, at the lengths where the form or
\* the receive buffer ends, and a small frame of every kind.
MCFrames ==
    Text1(0, {0, 1, 3, 4, 5, 125}) \cup Text1(126, {0, 4, 126, 127, 255, 256, 1016, 1017, 1020, 1021})
        \cup Text1(127, {0, 5, 126, 1010, 1011, 1014, 1015})
        \cup [fin : BOOLEAN, op : 0 .. 15, form : {0}, key : Keys, n : {5}]
=============================================================================
