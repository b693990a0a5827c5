--------------------------- MODULE MCTransactionMap ---------------------------
(* Bodies for TransactionMap.                                               *)
EXTENDS TransactionMap, Lowering

\* `if c { break; }`
BreakIf == <<"if", <<<<"break">>>>, <<>>>>

Calls == {<<>>, <<<<"call">>>>}

\* A statement around calls; a loop is left at its end.
Compound == {<<"if", x, y>> : x, y \in Calls} \cup {<<"while", x>> : x \in Calls}
            \cup {<<"loop", <<<<"call">>, BreakIf>>>>}

Region == Calls \cup {x \o <<s>> \o y : x, y \in Calls, s \in Compound}

Transactions == {<<"transaction", r>> : r \in Region}
Small == {<<"transaction", x>> : x \in Calls}

\* Transactions one after the other, in one or both arms of an if, in a loop.
Paired ==
  {<<t, <<"call">>>> : t \in Transactions} \cup
  {<<s, t>> : s \in Small, t \in Transactions} \cup
  {<<<<"if", <<t>>, <<s>>>>, <<"call">>>> : t \in Transactions, s \in Small \cup {<<"call">>}} \cup
  {<<<<"if", <<<<"call">>>>, <<t>>>>, s>> : t \in Transactions, s \in Small} \cup
  {<<<<"while", <<t, <<"call">>>>>>, s>> : t \in Transactions, s \in Small} \cup
  {<<<<"call">>, <<"loop", <<t, BreakIf, <<"call">>>>>>>> : t \in Transactions}

\* Bodies without transactions, called from inside one.
Callees == Region \cup {<<<<"loop", <<BreakIf, <<"call">>>>>>>>}

PairedBodies == {BodyFor(p) : p \in Paired \cup Callees}

\* A loop inside a transaction that is left in the middle.
LeftInTheMiddle ==
  {BodyFor(<<<<"transaction", <<<<"loop", <<BreakIf, <<"call">>>>>>>>>>>>)}

\* A transaction inside a transaction, in its arms and in its loops.
Nested ==
  {BodyFor(p) : p \in
    {<<<<"transaction", x \o <<<<"transaction", y>>>> \o z>>, <<"call">>>> : x, y, z \in Calls} \cup
    {<<<<"transaction", <<<<"if", <<s>>, x>>>> \o y>>>> : s \in Small, x, y \in Calls} \cup
    {<<<<"transaction", <<<<"if", x, <<s>>>>>> \o y>>>> : s \in Small, x, y \in Calls} \cup
    {<<<<"transaction", <<<<"while", <<s>> \o x>>>> \o y>>>> : s \in Small, x, y \in Calls} \cup
    {<<<<"while", <<<<"transaction", <<s>> \o x>>>>>>>> : s \in Small, x \in Calls}}

EndedBodies == PairedBodies \cup Nested

\* Transactions whose unlock call is out of reach: left by return only, or
\* never left.
Unreleased ==
  {BodyFor(p) : p \in
    {<<<<"transaction", x \o <<<<"return">>>>>>>> : x \in Calls} \cup
    {<<<<"transaction", <<<<"loop", x>>>>>>>> : x \in Calls} \cup
    {<<<<"transaction", <<<<"if", x \o <<<<"return">>>>, y \o <<<<"return">>>>>>>>>>>> :
       x, y \in Calls} \cup
    {<<<<"if", <<<<"transaction", x \o <<<<"return">>>>>>>>, y>>, s>> :
       x, y \in Calls, s \in Small} \cup
    {<<<<"if", y, <<<<"transaction", x \o <<<<"return">>>>>>>>>>, s>> :
       x, y \in Calls, s \in Small} \cup
    {<<<<"loop", <<<<"transaction", x \o <<<<"break">>>>>>>>>>, <<"call">>>> : x \in Calls}}

\* Bodies that are not paired: early returns and breaks, with transactions
\* around or inside of them.
Unpaired ==
  LeftInTheMiddle \cup Unreleased \cup
  {BodyFor(p) : p \in
    {<<<<"transaction", <<<<"if", <<<<"call">>, <<"return">>>>, x>>, <<"call">>>>>>, <<"call">>>> :
       x \in Calls} \cup
    {<<<<"transaction", <<<<"if", x, <<<<"call">>, <<"return">>>>>>, <<"call">>>>>>, <<"call">>>> :
       x \in Calls} \cup
    {<<<<"loop", x \o <<<<"transaction", <<<<"call">>, BreakIf>> \o x>>>>>>, <<"call">>>> : x \in Calls} \cup
    {<<<<"transaction", <<<<"if", <<s, <<"return">>>>, x>>>> \o y>>>> : s \in Small, x, y \in Calls} \cup
    {<<<<"transaction", <<<<"if", x, <<s, <<"return">>>>>>>> \o y>>>> : s \in Small, x, y \in Calls}}

CallsIn(b) == {x \in BlocksOf(b) : b.term[x] = "call"}

\* UniqueIds of another body.
EarlierLock == 101
EarlierUnlock == 102

\* terminator_to_tx as the caller passes it: empty, or with the calls of this
\* body mapped to the transaction of an earlier caller.
Passed(b) == {<<>>, [x \in CallsIn(b) |-> <<EarlierLock, EarlierUnlock>>]}

AnyBodies == EndedBodies \cup Unpaired

MCInherited == [b \in AnyBodies |-> Passed(b)]
AnySeeds == [b \in AnyBodies |-> {{}, {OuterLock}}]
=============================================================================
