----------------------------- MODULE MCPhonebook -----------------------------
(* Model-checking instance of Phonebook: two request handles, two ordinary
   contacts and the owner card, one phonebook folder, replies of up to three
   rows. *)
EXTENDS Phonebook, TLC

MCBooks == {"pb"}
MCPullNames == {"pb", "nosuch"}
\* "" (the root), one level, a book without /telecom, two levels, unknown
MCNewFolders == {<<>>, <<"telecom">>, <<"pb">>, <<"telecom", "/", "pb">>, <<"x">>}

\* Request handles are interchangeable, and so are the ordinary contacts.
Symmetry == Permutations(Requests) \cup Permutations(Ids \ {Me})
=============================================================================
