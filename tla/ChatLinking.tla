----------------------------- MODULE ChatLinking -----------------------------
(***************************************************************************)
(* Linking Telegram chats to tenants: POST /v1/telegram/pairing-code       *)
(* issues a code, "/start CODE" redeems it (bot/commands.py, cmd_start,    *)
(* with TelegramBindingRepository.bind and PairingCodeRepository).  The    *)
(* bot handles updates concurrently, so two chats may redeem at the same   *)
(* time, and a restart may cut a handler off between two queries.          *)
(***************************************************************************)
EXTENDS Naturals, FiniteSets

CONSTANTS
  Tenants, Chats,
  MaxCodes,   \* bound on the codes issued for a tenant
  Nobody      \* no tenant

ASSUME LinkAssumption == MaxCodes \in Nat /\ Nobody \notin Tenants

Codes == Tenants \X (1 .. MaxCodes)
Owner(c) == c[1]
NoCode == <<Nobody, 0>>

VARIABLES
  kCode,    \* pairing_codes: "none", "valid", "expired", "used"
  kBound,   \* telegram_bindings: the tenant of each chat
  kAt,      \* the /start handler of each chat: where it is suspended
  kUsing,   \* the code it redeems
  kBy,      \* history: the chats each code has bound
  kClean    \* history: no two redemptions overlapped, none was cut off

kVars == <<kCode, kBound, kAt, kUsing, kBy, kClean>>

LinkInit ==
  /\ kCode = [c \in Codes |-> "none"]
  /\ kBound = [h \in Chats |-> Nobody]
  /\ kAt = [h \in Chats |-> "idle"]
  /\ kUsing = [h \in Chats |-> NoCode]
  /\ kBy = [c \in Codes |-> {}]
  /\ kClean = TRUE

IssuePairingCode(c) ==
  /\ kCode[c] = "none"
  /\ kCode' = [kCode EXCEPT ![c] = "valid"]
  /\ UNCHANGED <<kBound, kAt, kUsing, kBy, kClean>>

CodeExpires(c) ==
  /\ kCode[c] = "valid"
  /\ kCode' = [kCode EXCEPT ![c] = "expired"]
  /\ UNCHANGED <<kBound, kAt, kUsing, kBy, kClean>>

-----------------------------------------------------------------------------
(* /start CODE *)

\* get_valid: unused and unexpired; any other code is answered with a warning.
GetValid(c) == kCode[c] = "valid"

StartWithCode(h, c) ==
  /\ kAt[h] = "idle"
  /\ GetValid(c)
  /\ kAt' = [kAt EXCEPT ![h] = "bind"]
  /\ kUsing' = [kUsing EXCEPT ![h] = c]
  /\ kClean' = (kClean /\ \A g \in Chats : kAt[g] = "idle")
  /\ UNCHANGED <<kCode, kBound, kBy>>

\* bind: does the chat have a row?
BindLookup(h) ==
  /\ kAt[h] = "bind"
  /\ kAt' = [kAt EXCEPT ![h] = IF kBound[h] = Nobody THEN "insert" ELSE "move"]
  /\ UNCHANGED <<kCode, kBound, kUsing, kBy, kClean>>

\* The insert or update, with tenant_uuid and chat_id UNIQUE; the chat's row can
\* be changed by no other handler.
TenantFree(h, t) == \A g \in Chats \ {h} : kBound[g] # t

BindWrite(h) ==
  /\ kAt[h] \in {"insert", "move"}
  /\ LET t == Owner(kUsing[h])
     IN  IF TenantFree(h, t)
           THEN /\ kBound' = [kBound EXCEPT ![h] = t]
                /\ kBy' = [kBy EXCEPT ![kUsing[h]] = @ \cup {h}]
                /\ kAt' = [kAt EXCEPT ![h] = "mark"]
           ELSE /\ kAt' = [kAt EXCEPT ![h] = "idle"]      \* IntegrityError
                /\ UNCHANGED <<kBound, kBy>>
  /\ UNCHANGED <<kCode, kUsing, kClean>>

\* mark_used
MarkUsed(h) ==
  /\ kAt[h] = "mark"
  /\ kCode' = [kCode EXCEPT ![kUsing[h]] = "used"]
  /\ kAt' = [kAt EXCEPT ![h] = "idle"]
  /\ UNCHANGED <<kBound, kUsing, kBy, kClean>>

\* The bot stops, or a query fails, in the middle of a handler.
HandlerCut(h) ==
  /\ kAt[h] # "idle"
  /\ kAt' = [kAt EXCEPT ![h] = "idle"]
  /\ kClean' = FALSE
  /\ UNCHANGED <<kCode, kBound, kUsing, kBy>>

LinkNext ==
  \/ \E c \in Codes : IssuePairingCode(c) \/ CodeExpires(c)
  \/ \E h \in Chats : \/ \E c \in Codes : StartWithCode(h, c)
                      \/ BindLookup(h) \/ BindWrite(h) \/ MarkUsed(h) \/ HandlerCut(h)

LinkSpec == LinkInit /\ [][LinkNext]_kVars

-----------------------------------------------------------------------------
(* Properties *)

\* A tenant is controlled from at most one chat, however redemptions overlap or
\* are cut off, and a chat only ever controls a tenant whose code bound it (bind).
OneChatPerTenant ==
  \A h \in Chats : kBound[h] # Nobody =>
    /\ \A g \in Chats \ {h} : kBound[g] # kBound[h]
    /\ \E c \in Codes : Owner(c) = kBound[h] /\ h \in kBy[c]

\* "single-use chat-linking pairing codes" (PairingCodeRepository): a code binds
\* one chat, also when that chat moves to another tenant afterwards.  Two
\* overlapping redemptions, or one cut off before mark_used, can spend it twice.
CodeBindsOneChat == kClean => \A c \in Codes : Cardinality(kBy[c]) <= 1

\* Who controls a tenant, and with which code, together.
LinkSound == OneChatPerTenant /\ CodeBindsOneChat
=============================================================================
