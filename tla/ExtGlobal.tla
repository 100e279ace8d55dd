------------------------------- MODULE ExtGlobal --------------------------------
(***************************************************************************)
(* The global account of an extension program as the SDK reads it          *)
(* (sdk/src/accounts.ts): the decoder depends on the yield variant, which  *)
(* is looked up first at one of two fixed offsets, as the account is       *)
(* longer while an admin is pending.  A byte inside a key can be any byte. *)
(***************************************************************************)
EXTENDS Integers, Sequences

CONSTANTS
  Bump,         \* the value of a bump byte
  KeyBytes      \* the values a byte of a key is tried with

Variants == <<"NoYield", "ScaledUi", "Crank">>

\* An account up to the yield variant, each byte as the set of its values; what
\* follows is only read by the decoder.
Unknown(width) == [i \in 1..width |-> KeyBytes]
Key == Unknown(32)
Discriminator == Unknown(8)
Admin(pending) == Key \o (IF pending THEN <<{1}>> \o Key ELSE <<{0}>>)
Mints == Key \o Key \o Key      \* ext_mint, m_mint and m_earn_global_account
Bumps == <<{Bump}, {Bump}, {Bump}>>
Bytes(account) ==
  (Discriminator \o Admin(account.pending)) \o (Mints \o Bumps) \o <<{account.type}>>

BytesAt(account, offset) == Bytes(account)[offset + 1]

\* The fields that follow the variant.
ConfigFields(type) ==
  CASE type = 1 -> {"fee_bps", "last_m_index", "last_ext_index"}
    [] type = 2 -> {"earn_authority", "last_m_index", "last_ext_index", "timestamp"}
    [] OTHER -> {}

OffsetWithoutAdmin(pending) == 140
yieldTypeOffset(pending) == IF pending = 1 THEN 172 ELSE 140

\* The yield types loadGlobal may take the account for; it throws at those it
\* has no decoder for.
YieldTypesRead(account) ==
  UNION {BytesAt(account, yieldTypeOffset(pending)) : pending \in BytesAt(account, 40)}
IsKnown(type) == type < 3
loadGlobal(type) == [variant |-> Variants[type + 1], has |-> ConfigFields(type)]
=============================================================================
