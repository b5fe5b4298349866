---------------------------- MODULE MintSupport ----------------------------
(***************************************************************************)
(* Which mints a pool may be created for: is_supported_mint (utils/        *)
(* token.rs), asked of every mint the two token programs can make.  A mint *)
(* of Token-2022 gets its extensions one at a time before it is            *)
(* initialized, keeps them, and can get some more at any later time; the   *)
(* program asks once, when it creates a pool.                              *)
(***************************************************************************)
EXTENDS Integers, FiniteSets

CONSTANT MaxExtensions       \* bound on the extensions of one mint

ASSUME MintSupportAssumption == MaxExtensions \in Nat

VARIABLES mint, has_pool     \* has_pool: initialize has accepted the mint

mint_vars == <<mint, has_pool>>

\* The discriminants of spl_token_2022's ExtensionType.
discriminant ==
    [ TransferFeeConfig |-> 1, MintCloseAuthority |-> 3, ConfidentialTransferMint |-> 4,
      DefaultAccountState |-> 6, ImmutableOwner |-> 7, MemoTransfer |-> 8,
      NonTransferable |-> 9, InterestBearingConfig |-> 10, PermanentDelegate |-> 12,
      TransferHook |-> 14, ConfidentialTransferFeeConfig |-> 16,
      MetadataPointer |-> 18, TokenMetadata |-> 19, GroupPointer |-> 20,
      TokenGroup |-> 21, GroupMemberPointer |-> 22, TokenGroupMember |-> 23 ]

ExtensionType == DOMAIN discriminant

\* The extensions that only token accounts can have, and those a mint may get
\* after it was initialized.
AccountExtensions == {"ImmutableOwner", "MemoTransfer"}
LateExtensions == {"TokenMetadata", "TokenGroup", "TokenGroupMember"}

EXTENSION_TYPE_TRANSFER_HOOK == 10

----------------------------------------------------------------------------
extension_allowed(e) ==
    \/ e \in { "TransferFeeConfig", "MetadataPointer", "TokenMetadata", "MintCloseAuthority",
               "DefaultAccountState", "ImmutableOwner", "MemoTransfer" }
    \/ discriminant[e] = EXTENSION_TYPE_TRANSFER_HOOK

\* MUTANT of is_supported_mint: the loop returns at the first extension it knows.
is_supported_by_one(m) ==
    \/ m.program = "Token"
    \/ m.whitelisted
    \/ m.extensions = {}
    \/ \E e \in m.extensions : extension_allowed(e)

is_supported_mint(m) ==
    \/ m.program = "Token"
    \/ m.whitelisted
    \/ \A e \in m.extensions : extension_allowed(e)

----------------------------------------------------------------------------
MintInit ==
    /\ \E program \in {"Token", "Token2022"}, whitelisted \in BOOLEAN :
          mint = [ program |-> program, whitelisted |-> whitelisted,
                   extensions |-> {}, initialized |-> FALSE ]
    /\ has_pool = FALSE

AddExtension(e) ==
    /\ mint.program = "Token2022"
    /\ Cardinality(mint.extensions) < MaxExtensions
    /\ e \notin mint.extensions \cup AccountExtensions
    /\ mint.initialized <=> e \in LateExtensions
    /\ mint' = [mint EXCEPT !.extensions = @ \cup {e}]
    /\ UNCHANGED has_pool

\* With confidential transfers a fee needs the extension that hides it, and that
\* one needs both others.
InitializeMint ==
    LET Has(e) == e \in mint.extensions
    IN  /\ ~mint.initialized
        /\ Has("ConfidentialTransferFeeConfig")
              <=> Has("TransferFeeConfig") /\ Has("ConfidentialTransferMint")
        /\ mint' = [mint EXCEPT !.initialized = TRUE]
        /\ UNCHANGED has_pool

\* initialize, as far as it looks at one of its mints.
CreatePool ==
    /\ mint.initialized
    /\ is_supported_mint(mint)
    /\ has_pool' = TRUE
    /\ UNCHANGED mint

MintNext ==
    \/ \E e \in ExtensionType : AddExtension(e)
    \/ InitializeMint
    \/ CreatePool

MintSpec == MintInit /\ [][MintNext]_mint_vars

----------------------------------------------------------------------------
\* Whatever extensions a mint came with and whatever it got later: unless it is
\* on the whitelist, nobody but the pool's authority can move what lies in a
\* vault, and what the vault was sent can be sent on in the open.
VaultsOutOfReach ==
    has_pool /\ ~mint.whitelisted =>
        mint.extensions \cap { "PermanentDelegate", "NonTransferable",
                               "ConfidentialTransferMint",
                               "ConfidentialTransferFeeConfig" } = {}

\* A comment in is_supported_mint (token.rs:196) says that tokens with a transfer hook may always be used.
HooksSupported ==
    mint.initialized /\ mint.extensions = {"TransferHook"} => is_supported_mint(mint)
============================================================================
