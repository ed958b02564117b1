------------------------------ MODULE MCRecovery ------------------------------
(* Instances of Recovery for TLC. *)
EXTENDS Recovery

CONSTANTS t1, t2

OneThread == {t1}
TwoThreads == {t1, t2}
Unavailable == {503}
DownOrUp == {200, 503}
NoHeaderOnly == {NoHeader}
AnyHeader == {NoHeader, NaiveDate}
Encodable == {"encodable"}
AnyBody == {"encodable", "unencodable"}
===============================================================================
