---------------------------- MODULE MC_RpcClient ----------------------------
EXTENDS RpcClient

Account(lamports, data) == [exists |-> TRUE, lamports |-> lamports, data |-> data]

(* Bytes from both ends of their range; a key is two of them. *)
Table(authority, addresses) ==
    [account |-> Account(12, WriteTable(authority, addresses)), authority |-> authority,
     table |-> [ok |-> TRUE, addresses |-> addresses]]

NotATable(account) == [account |-> account, table |-> Rejected]

Tables ==
    {Table(<<>>, <<>>), Table(<<>>, <<<<255, 0>>, <<3, 4>>>>),
     Table(<<9, 8>>, <<<<9, 200>>>>), Table(<<1, 1>>, <<>>)}
    \cup {NotATable(a) : a \in
             {NoAccount, Account(9, <<>>), Account(10, <<2, 0, 0>>), Account(10, <<1, 0>>),
              Account(1, <<1, 255, 1, 7>>), Account(12, <<1, 255, 0, 5, 6, 7>>)}}

Infos == {NoAccount, Account(9, <<>>), Account(10, <<255>>), Account(105, <<0, 128, 63, 7>>)}

MCCalls ==
    {[method |-> m, held |-> n] : m \in NumberMethods, n \in {0, 7, 15, 204}}
    \cup {[method |-> m, held |-> s] : m \in StringMethods, s \in {<<63>>, <<0, 9, 63>>}}
    \cup {[method |-> "getAccountInfo", held |-> a] : a \in Infos}
    \cup {[method |-> "getAddressLookupTable", held |-> t] : t \in Tables}
    \cup {[method |-> "getMultipleAccountsInfo", held |-> list] :
              list \in {<<>>, <<NoAccount>>, <<NoAccount, Account(12, <<255>>)>>,
                        <<Account(31, <<0, 255>>), NoAccount, Account(8, <<>>)>>}}
    \cup {[method |-> "raw", held |-> 0]}
=============================================================================
