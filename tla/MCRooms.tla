---------------------------- MODULE MCRooms ----------------------------
EXTENDS Rooms, TLC

CONSTANTS alice, bob, phone, tablet, r1, r2

\* One phone each.
OnePhoneEach == phone :> alice @@ tablet :> bob

\* The accounts, each with its phone, of a room whose password nobody knows are
\* interchangeable.
SwapAccounts ==
    {p \in Permutations({alice, bob, phone, tablet}) :
        \A d \in {phone, tablet} : /\ p[d] \in {phone, tablet}
                                  /\ OnePhoneEach[p[d]] = p[OnePhoneEach[d]]}

NobodyKnows == {}
BobKnows == {<<bob, r1>>}

MaxEvents == 4    \* bound on calls, faults and refusals together

\* The calls about a private room, up to the second decision about a request.
\* A refusal is traded for two calls, a password being checked late for one, and
\* the queues share the length of one creation.  The first call is the creation
\* by the account that knows the password; the other has to ask.  No step that
\* is fair leaves these bounds.
Affordable ==
    LET events == ops + faults + refusals
    IN  /\ creator[r1] # alice
        /\ events <= MaxEvents
        /\ refusals > 0 => ops <= 2
        /\ checks # {} => events <= 2
        /\ Len(out[phone]) + Len(out[tablet]) <= 3
=============================================================================
