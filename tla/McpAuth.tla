-------------------------------- MODULE McpAuth --------------------------------
(***************************************************************************)
(* mcp/auth.ts: who may call the MCP server's tools.  A token is a number, *)
(* in the order of creation, its verifier is the same number, and 0 is     *)
(* none.  The verifier is kept by CompositeMcpAuthStore: in the keychain   *)
(* of the system if there is one, or else in a file.                       *)
(*                                                                         *)
(* Invocations of `hpm mcp auth setup` and `... rotate` are processes of   *)
(* their own: each read and each write of a backend is a step.  An         *)
(* invocation prints its token when it ends; of two that overlap, the one  *)
(* that prints last need not be the one that stored last.                  *)
(***************************************************************************)
EXTENDS Naturals

CONSTANTS
  Setups,     \* invocations of `hpm mcp auth setup`
  Rotations,  \* and of `hpm mcp auth rotate`
  Keychains   \* of BOOLEAN: does this system have a keychain?

VARIABLES
  hasKeychain,
  keychain,   \* the verifier in the keychain
  file,       \* the verifier in mcp-token.hash
  tokens,     \* tokens created so far
  admin,      \* invocation -> the step it is at
  made,       \* invocation -> the token it has created, until it ends
  newest      \* history: the token stored last, see Stored

stores == <<keychain, file>>
authVars == <<hasKeychain, stores, tokens, admin, made, newest>>

Admins == Setups \cup Rotations

AuthInit ==
  /\ hasKeychain \in Keychains
  /\ keychain = 0 /\ file = 0 /\ tokens = 0
  /\ admin = [a \in Admins |-> "idle"]
  /\ made = [a \in Admins |-> 0]
  /\ newest = 0

\* CompositeMcpAuthStore.read: the first backend that has a verifier.
FirstVerifier(readable) == IF readable /\ keychain # 0 THEN keychain ELSE file

AdminAt(a, from, to) == admin[a] = from /\ admin' = [admin EXCEPT ![a] = to]

\* setupMcpAuth looks into the keychain, if there is one, and then into the
\* file; it ends where it finds a verifier.  A keychain that does not answer
\* has none.
Setup(a) ==
  /\ \E readable \in {hasKeychain, FALSE} :
       AdminAt(a, "idle", IF readable /\ keychain # 0 THEN "done" ELSE "lookFile")
  /\ UNCHANGED <<hasKeychain, stores, tokens, made, newest>>

LookFile(a) ==
  /\ AdminAt(a, "lookFile", IF file # 0 THEN "done" ELSE "write")
  /\ UNCHANGED <<hasKeychain, stores, tokens, made, newest>>

Rotate(a) ==
  /\ AdminAt(a, "idle", "write")
  /\ UNCHANGED <<hasKeychain, stores, tokens, made, newest>>

\* Mutant: the keychain does not replace a verifier it has.
WriteKeychain_NoUpdate(a) ==
  /\ tokens' = tokens + 1
  /\ made' = [made EXCEPT ![a] = tokens + 1]
  /\ \/ /\ hasKeychain /\ keychain = 0
        /\ AdminAt(a, "write", "clear")
        /\ keychain' = tokens + 1 /\ newest' = tokens + 1
     \/ /\ AdminAt(a, "write", "writeFile")
        /\ UNCHANGED <<keychain, newest>>
  /\ UNCHANGED <<hasKeychain, file>>

\* rotateMcpAuth creates a token; CompositeMcpAuthStore.write offers its verifier
\* to the keychain, if there is one, and after a refusal goes on to the file.
WriteKeychain(a) ==
  /\ tokens' = tokens + 1
  /\ made' = [made EXCEPT ![a] = tokens + 1]
  /\ \/ /\ hasKeychain
        /\ AdminAt(a, "write", "clear")
        /\ keychain' = tokens + 1 /\ newest' = tokens + 1
     \/ /\ AdminAt(a, "write", IF hasKeychain THEN "refused" ELSE "writeFile")
        /\ UNCHANGED <<keychain, newest>>
  /\ UNCHANGED <<hasKeychain, file>>

\* The newest token is the one stored last, save for one that went to the file
\* because the keychain refused it, while the keychain holds another.
Stored(a) == IF admin[a] = "refused" /\ keychain # 0 THEN newest ELSE made[a]

\* The file takes the verifier, or the invocation fails.
WriteFile(a) ==
  /\ AdminAt(a, "writeFile", "done") \/ AdminAt(a, "refused", "done")
  /\ made' = [made EXCEPT ![a] = 0]
  /\ \/ file' = made[a] /\ newest' = Stored(a)
     \/ UNCHANGED <<file, newest>>
  /\ UNCHANGED <<hasKeychain, keychain, tokens>>

\* clearLowerPriorityStores: the file is deleted, if that succeeds.
ClearFile(a) ==
  /\ AdminAt(a, "clear", "done")
  /\ made' = [made EXCEPT ![a] = 0]
  /\ file' \in {0, file}
  /\ UNCHANGED <<hasKeychain, keychain, tokens, newest>>

AuthStep ==
  \/ \E a \in Setups : Setup(a) \/ LookFile(a)
  \/ \E a \in Rotations : Rotate(a)
  \/ \E a \in Admins : WriteKeychain(a) \/ WriteFile(a) \/ ClearFile(a)
=============================================================================
