---------------------------- MODULE MCIngestion ----------------------------
(* Ingestion of three roles: t2 names the organisation of t1, t3 names none *)
(* and shares the domain of t2.  The title of t2 is similar to the other    *)
(* two.                                                                     *)
EXTENDS Ingestion, TLC

CONSTANTS u1, u2, t1, t2, t3, lab, site

MCOrganizationOf == t1 :> lab @@ t2 :> lab @@ t3 :> NoOrganization

MCSimilarTitles ==
    {<<t, t>> : t \in {t1, t2, t3}}
        \union {<<t1, t2>>, <<t2, t1>>, <<t2, t3>>, <<t3, t2>>}

At(u, t, d) == [url |-> u, text |-> t, domain |-> d]

\* The same text at two addresses, and another wording at one of them.
FewPostings == {At(u1, t1, site), At(u2, t1, site), At(u2, t2, site)}

\* Two roles that have nothing in common, and a third that is similar to both:
\* to one by the organisation's name, to the other by its domain.
SeveralPostings == {At(u1, t1, NoOrganization), At(u2, t2, site), At(u2, t3, site)}

MCSymmetry == Permutations(Ids) \union Permutations(Sessions)

=============================================================================
