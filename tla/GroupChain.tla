----------------------------- MODULE GroupChain -----------------------------
(***************************************************************************)
(* The chain of main blocks of an encrypted conference and the state it    *)
(* carries (ntgcalls::e2e::chain::Blockchain and ntgcalls::e2e::State):    *)
(* who takes part, what each may change, and for whom the shared key is.   *)
(* A session makes a block that adds its user, builds its blockchain from  *)
(* the block that did, and applies those that follow.  The server may hand *)
(* it others than those made by this library: any two changes of a kind a  *)
(* block may have, signed by anyone or by nobody, with the proof they lead *)
(* to or the one of the block before (Craft).                              *)
(*                                                                         *)
(* A hash is the block it is of.  Permissions are a set, not bits; a list  *)
(* of participants, or of the users a key is for, is a set.  The hash of   *)
(* the values of the chain is left out: a client takes it from the block.  *)
(* What makes a session fail on a block it applied is in module Session.   *)
(***************************************************************************)
EXTENDS Integers, FiniteSets

CONSTANTS
  Sessions,
  Keys,           \* key pairs, one for each time a user takes part
  Users,
  Owner,          \* the user of each key
  Proposals,      \* groups that blocks not made by this library propose
  MaxHeight,      \* the largest height, 2^31 - 1 in the code
  MaxBuilt,       \* bound: blocks this library makes
  MaxCrafted      \* bound: other blocks

Flags == {"add", "remove", "value"}

Participant == [user : Users, key : Keys, flags : SUBSET Flags]
Group == [members : SUBSET Participant, external : SUBSET Flags]

ASSUME ChainAssumption ==
  /\ IsFiniteSet(Keys) /\ IsFiniteSet(Users)
  /\ Owner \in [Keys -> Users]
  /\ Proposals \subseteq Group
  /\ MaxHeight \in Nat
  /\ MaxBuilt \in Nat
  /\ MaxCrafted \in Nat

VARIABLES
  replica,        \* the blockchain of each session
  built,          \* blocks made by this library
  crafted         \* other blocks

chainVars == <<replica, built, crafted>>

-----------------------------------------------------------------------------
(* States and blocks.                                                       *)

\* Zero is SharedKey{}, any other number a secret.
NoKey == [to |-> {}, secret |-> 0]
SharedKey == [to : SUBSET Users, secret : Nat]

EmptyGroup == [members |-> {}, external |-> {}]
FirstGroup == [members |-> {}, external |-> Flags]

NewState(group) ==
  [group |-> group, key |-> NoKey, hasValue |-> FALSE, hasKey |-> FALSE, hasGroup |-> FALSE]

\* A change, with nothing in the fields it has no use for.
Noop == [type |-> "noop", group |-> EmptyGroup, key |-> NoKey]
SetValue == [Noop EXCEPT !.type = "value"]
SetGroup(group) == [Noop EXCEPT !.type = "group", !.group = group]
SetKey(key) == [Noop EXCEPT !.type = "key", !.key = key]

\* Blocks have two changes: those of this library do, and a shorter list is one with Noop.
Change == [type : {"noop", "value", "group", "key"}, group : Group, key : SharedKey]
\* What a proof or a block may omit is a set of at most one.
Proof == [group : SUBSET Group, key : SUBSET SharedKey]

NoChain == [height |-> -1, last |-> {}, state |-> NewState(EmptyGroup)]

ChainInit ==
  /\ replica = [s \in Sessions |-> NoChain]
  /\ built = {}
  /\ crafted = {}

UsersOf(group) == {p.user : p \in group.members}
KeysOf(group) == {p.key : p \in group.members}

-----------------------------------------------------------------------------
(* State.                                                                   *)

\* get_permissions: a participant has its own, everyone else the external ones.
Permissions(group, signer) ==
  IF signer \in KeysOf(group)
  THEN UNION {p.flags : p \in {q \in group.members : q.key = signer}}
  ELSE group.external

MayChangeSharedKey(group, signer) ==
  /\ signer \in KeysOf(group)
  /\ Permissions(group, signer) \cap {"add", "remove"} # {}

\* validate_group_state.
ValidGroup(group) ==
  /\ Cardinality(UsersOf(group)) = Cardinality(group.members)
  /\ Cardinality(KeysOf(group)) = Cardinality(group.members)

\* Mutant of ValidKey: the key may be for others too.
ValidKeyForOthers(key, group) == key = NoKey \/ UsersOf(group) \subseteq key.to

\* validate_shared_key.
ValidKey(key, group) ==
  \/ key = NoKey
  \/ /\ Cardinality(key.to) = Cardinality(group.members)
     /\ UsersOf(group) \subseteq key.to

\* Those of both groups with different flags are neither added nor removed.
Same(p, q) == p.user = q.user /\ p.key = q.key
Added(old, new) == {p \in new.members : \A q \in old.members : ~ Same(p, q)}
Removed(old, new) == Added(new, old)
Changed(old, new) ==
  {pq \in new.members \X old.members : Same(pq[1], pq[2]) /\ pq[1].flags # pq[2].flags}

\* The flags that were not there: those of the new, and the new ones of the others.
AddedFlags(old, new) == UNION {p.flags : p \in Added(old, new)}
GainedFlags(old, new) == UNION {pq[1].flags \ pq[2].flags : pq \in Changed(old, new)}
Needed(old, new) == AddedFlags(old, new) \cup GainedFlags(old, new)

\* Mutant of MaySetGroup: flags of those who stay may be any.
MaySetGroupAny(old, new, may) ==
  /\ ValidGroup(new)
  /\ new.external \subseteq old.external
  /\ Removed(old, new) # {} => "remove" \in may
  /\ Added(old, new) # {} => "add" \in may
  /\ AddedFlags(old, new) \subseteq may

\* set_group_state: who signs needs the permission to add, to remove, both to change the
\* flags of others, and every flag that was not there.
MaySetGroup(old, new, may) ==
  /\ ValidGroup(new)
  /\ new.external \subseteq old.external
  /\ Removed(old, new) # {} => "remove" \in may
  /\ Added(old, new) # {} => "add" \in may
  /\ Changed(old, new) # {} => {"add", "remove"} \subseteq may
  /\ Needed(old, new) \subseteq may

\* apply_change: may the signer make it, and the state after it.  A new group clears the
\* key, which the signer must be able to change in the new group.
MayApply(state, change, signer) ==
  CASE change.type = "group" ->
         /\ MaySetGroup(state.group, change.group, Permissions(state.group, signer))
         /\ MayChangeSharedKey(change.group, signer)
    [] change.type = "key" ->
         /\ state.key = NoKey
         /\ MayChangeSharedKey(state.group, signer)
         /\ ValidKey(change.key, state.group)
    [] OTHER -> TRUE

After(state, change) ==
  CASE change.type = "group" ->
         [state EXCEPT !.group = change.group, !.key = NoKey, !.hasGroup = TRUE]
    [] change.type = "key" -> [state EXCEPT !.key = change.key, !.hasKey = TRUE]
    [] change.type = "value" -> [state EXCEPT !.hasValue = TRUE]
    [] OTHER -> state

\* Mutant of Validates: a proof may repeat what the block changes.
ValidatesMore(state, proof) ==
  /\ state.hasGroup \/ state.hasValue
  /\ state.hasGroup \/ proof.group = {state.group}
  /\ state.hasGroup \/ state.hasKey \/ proof.key = {state.key}
  /\ ValidGroup(state.group)
  /\ ValidKey(state.key, state.group)

\* validate_state: the proof repeats what the block did not change.
Validates(state, proof) ==
  /\ state.hasGroup \/ state.hasValue
  /\ proof.group = IF state.hasGroup THEN {} ELSE {state.group}
  /\ proof.key = IF state.hasGroup \/ state.hasKey THEN {} ELSE {state.key}
  /\ ValidGroup(state.group)
  /\ ValidKey(state.key, state.group)

\* As apply starts, nothing was changed.
Start(state) == [NewState(state.group) EXCEPT !.key = state.key]

-----------------------------------------------------------------------------
(* Blockchain.                                                              *)

\* The key that a block without one is signed with: that of the first participant, an
\* undefined read if there is none.
Signers(state, block) == IF block.signer # {} THEN block.signer ELSE KeysOf(state.group)

\* State::apply, by a signer that signed: two changes, then the proof.
Applies(state, block, signer) ==
  LET first == After(Start(state), block.first)
  IN  /\ block.signed = signer
      /\ MayApply(Start(state), block.first, signer)
      /\ MayApply(first, block.second, signer)
      /\ Validates(After(first, block.second), block.proof)

\* Mutant of TakesBlock: the last height is not reached.
TakesBelow(chain, block) ==
  /\ block.height = chain.height + 1
  /\ block.height # MaxHeight
  /\ block.prev = chain.last
  /\ \E signer \in Signers(chain.state, block) : Applies(chain.state, block, signer)

\* try_apply_block takes the block.
TakesBlock(chain, block) ==
  /\ block.height = chain.height + 1
  /\ chain.height # MaxHeight
  /\ block.prev = chain.last
  /\ \E signer \in Signers(chain.state, block) : Applies(chain.state, block, signer)

Result(state, block) == After(After(Start(state), block.first), block.second)

ChainAfter(chain, block) ==
  [height |-> block.height, last |-> {block}, state |-> Result(chain.state, block)]

\* create_from_block: no permissions are looked at, and what the block did not change is
\* what its proof says.
StateOf(block) ==
  LET changed == After(After(NewState(IF block.height = 0 THEN FirstGroup ELSE EmptyGroup),
                             block.first), block.second)
  IN  [changed EXCEPT !.group = IF block.proof.group = {} THEN @
                                ELSE CHOOSE g \in block.proof.group : TRUE,
                      !.key = IF block.proof.key = {} THEN @
                              ELSE CHOOSE key \in block.proof.key : TRUE]

ChainOf(block) == [height |-> block.height, last |-> {block}, state |-> StateOf(block)]

\* build_block on the state of a chain, or of none at height 0.
Build(chain, first, second, k) ==
  LET start == IF chain.height = -1 THEN NewState(FirstGroup) ELSE chain.state
      end == After(After(Start(start), first), second)
  IN  [height |-> chain.height + 1,
       prev |-> chain.last,
       first |-> first,
       second |-> second,
       signer |-> {k},
       signed |-> k,
       proof |-> [group |-> IF end.hasGroup THEN {} ELSE {end.group},
                  key |-> IF end.hasGroup \/ end.hasKey THEN {} ELSE {end.key}]]

CanBuild(chain, first, second, k) ==
  LET start == IF chain.height = -1 THEN NewState(FirstGroup) ELSE chain.state
  IN  /\ chain.height # MaxHeight
      /\ Applies(start, Build(chain, first, second, k), k)

-----------------------------------------------------------------------------
(* Sessions.                                                                *)

Blocks == built \cup crafted
Bases == {NoChain} \cup {ChainOf(b) : b \in {c \in Blocks : Validates(StateOf(c), c.proof)}}

\* make_changes_for_new_state: the group, and a new key for all of it.
Joined(base, k) ==
  LET others == {p \in base.state.group.members : p.user # Owner[k]}
      self == [user |-> Owner[k], key |-> k, flags |-> {"add", "remove"}]
  IN  IF base = NoChain
      THEN [members |-> {self}, external |-> {"add", "remove"}]
      ELSE [members |-> others \cup {self}, external |-> base.state.group.external]

NewKey(group) == [to |-> UsersOf(group), secret |-> Cardinality(built) + 1]

\* make_join_block: create_self_add_block on the block the application was given last, or
\* create_zero_block.
MakeJoinBlock(k) ==
  /\ Cardinality(built) < MaxBuilt
  /\ \E base \in Bases :
       LET group == Joined(base, k)
           key == NewKey(group)
       IN  /\ CanBuild(base, SetGroup(group), SetKey(key), k)
           /\ built' = built \cup {Build(base, SetGroup(group), SetKey(key), k)}
  /\ UNCHANGED <<replica, crafted>>

\* What another client may write into a block: any two changes to a proposed group, to a
\* key for any users or to a value, signed by anyone or by nobody; its proof is the one
\* the changes lead to, or that of the block before. One that no session can begin with
\* or take makes no difference.
Changes ==
  {Noop, SetValue} \cup {SetGroup(g) : g \in Proposals}
    \cup {SetKey([to |-> to, secret |-> 0]) : to \in SUBSET Users}

Crafted(base, first, second, k, signer, repeats) ==
  [Build(base, first, second, k) EXCEPT
     !.signer = signer,
     !.proof = IF repeats THEN [group |-> {base.state.group}, key |-> {base.state.key}] ELSE @]

Craft ==
  /\ Cardinality(crafted) < MaxCrafted
  /\ \E base \in Bases \ {NoChain}, first, second \in Changes, k \in Keys,
        signer \in {{}} \cup {{j} : j \in Keys}, repeats \in BOOLEAN :
       LET block == Crafted(base, first, second, k, signer, repeats)
       IN  /\ \/ Validates(StateOf(block), block.proof)
              \/ \E s \in Sessions : TakesBlock(replica[s], block)
           /\ crafted' = crafted \cup {block}
  /\ UNCHANGED <<replica, built>>

\* init_blockchain: the first block a session applies.
InitBlockchain(s, block) ==
  /\ replica[s] = NoChain
  /\ Validates(StateOf(block), block.proof)
  /\ replica' = [replica EXCEPT ![s] = ChainOf(block)]
  /\ UNCHANGED <<built, crafted>>

\* apply_block: the others; one that is not taken changes nothing.
ApplyBlock(s, block) ==
  /\ replica[s] # NoChain
  /\ TakesBlock(replica[s], block)
  /\ replica' = [replica EXCEPT ![s] = ChainAfter(replica[s], block)]
  /\ UNCHANGED <<built, crafted>>

ChainNext ==
  \/ \E k \in Keys : MakeJoinBlock(k)
  \/ Craft
  \/ \E s \in Sessions, block \in Blocks : InitBlockchain(s, block) \/ ApplyBlock(s, block)

ChainSpec == ChainInit /\ [][ChainNext]_chainVars

-----------------------------------------------------------------------------
(* Properties.                                                              *)

\* Sessions at the same block have the same group and the same key, whether they applied
\* all the blocks before it or began with it.
Agreement ==
  \A r, s \in Sessions : replica[r].last = replica[s].last => replica[r].state = replica[s].state

\* The key is for those who take part and for nobody else, each of them once.
KeyForMembers ==
  \A s \in Sessions :
    LET state == replica[s].state
    IN  /\ state.key # NoKey => state.key.to = UsersOf(state.group)
        /\ \A p, q \in state.group.members : p.user = q.user \/ p.key = q.key => p = q

Powers(group) == group.external \cup UNION {p.flags : p \in group.members}

\* No block gives anybody a permission that nobody had: what participants and newcomers
\* may do together never grows.
PowersShrink ==
  [][\A s \in Sessions :
       replica[s] # NoChain
         => Powers(replica'[s].state.group) \subseteq Powers(replica[s].state.group)
    ]_chainVars

\* A block this library builds on a block is taken by every session that is at it.
BuiltIsTaken ==
  \A block \in built, s \in Sessions :
    replica[s] # NoChain /\ replica[s].last = block.prev => TakesBlock(replica[s], block)

=============================================================================
