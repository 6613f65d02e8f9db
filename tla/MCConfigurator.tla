--------------------------- MODULE MCConfigurator ---------------------------
(***************************************************************************)
(* Files for the page: the shipped one, one with its customisation further *)
(* down and values of an older page in it, one as long as that, one of     *)
(* another revision, one that is cut off and one that is no KIP.           *)
(***************************************************************************)
EXTENDS Configurator

Zeros(n) == [i \in 1..n |-> 0]
Defaults == [i \in 1..Len(Table) |-> EntryOf[Table[i]].defval]
Kip(front, rev, words, back) ==
    [begin |-> front, word |-> Zeros(front) \o <<rev>> \o words \o back]

ShippedKip == Kip(2, CUST_REV_ADV, Defaults, <<7, 8, 9>>)
OlderKip   == Kip(4, CUST_REV_ADV, [Defaults EXCEPT ![6] = 1100, ![7] = 1996801], <<7>>)
OtherKip   == Kip(4, CUST_REV_ADV, [Defaults EXCEPT ![10] = 3], <<5>>)
RevKip     == Kip(4, 10, Defaults, <<>>)
CutKip     == Kip(1, CUST_REV_ADV, SubSeq(Defaults, 1, 15), <<>>)
NoKip      == [begin |-> 0, word |-> Zeros(20)]

SomeFiles == {ShippedKip, OlderKip, OtherKip, RevKip, CutKip, NoKip}

\* The ends of every range, one beyond them, and an empty input, which is 0.
Limits == UNION {{<<f, 0>>, <<f, EntryOf[f].min>>, <<f, EntryOf[f].max>>,
                  <<f, EntryOf[f].max + EntryOf[f].step>>, <<f, EntryOf[f].min + 1>>} : f \in Entries}
=============================================================================
