---------------------------- MODULE Enterprises ----------------------------
(***************************************************************************)
(* The row of an enterprise (identity/application/services.py): it is      *)
(* registered, submits its KYC files, configures its agent, links and      *)
(* unlinks a wallet.  Each request loads the whole row as an aggregate,    *)
(* changes its own columns there, and gives the whole aggregate to         *)
(* update(), which selects the row again and writes the columns in which   *)
(* the aggregate differs from that second reading.                         *)
(***************************************************************************)
CONSTANTS Requests, \* HTTP requests under way
          Firms,    \* by their PAN
          Wallets, NoWallet,
          Files, NoFiles, \* what may be submitted for KYC
          Configs, DefaultConfig

ASSUME NoWalletAssumption == NoWallet \notin Wallets
ASSUME NoFilesAssumption == NoFiles \notin Files
ASSUME DefaultConfigAssumption == DefaultConfig \in Configs

VARIABLES registered, \* firms that have a row in table enterprises
          rows,       \* rows[f]: what it holds
          request     \* request[r]: the step of r, and what it holds

enterpriseVars == <<registered, rows, request>>

Enterprise == [kyc : {"PENDING", "KYC_SUBMITTED"},
               docs : Files \cup {NoFiles},
               config : Configs,
               wallet : Wallets \cup {NoWallet}]
NewEnterprise == [kyc |-> "PENDING", docs |-> NoFiles,
                  config |-> DefaultConfig, wallet |-> NoWallet]

Kinds == {"kyc", "config", "link", "unlink"}

Request ==
    [step : {"idle"}]
    \cup [step : {"insert"}, firm : Firms, wallet : Wallets \cup {NoWallet}]
    \cup [step : {"link"}, firm : Firms, wallet : Wallets]
    \cup [step : {"update"}, kind : Kinds, firm : Firms,
          loaded : Enterprise, enterprise : Enterprise]
    \cup [step : {"commit"}, kind : Kinds, firm : Firms,
          loaded : Enterprise, enterprise : Enterprise, existing : Enterprise]
NoRequest == [step |-> "idle"]

EnterpriseTypeOK ==
    /\ registered \subseteq Firms
    /\ rows \in [Firms -> Enterprise]
    /\ request \in [Requests -> Request]

EnterpriseInit ==
    /\ registered = {}
    /\ rows = [f \in Firms |-> NewEnterprise]
    /\ request = [r \in Requests |-> NoRequest]

-----------------------------------------------------------------------------
\* register_enterprise: PAN, GSTIN and email are looked up before the insert.
\* Registration with Magic or with a wallet names a wallet to be linked.
CheckUnique(r, f, w) ==
    /\ request[r] = NoRequest
    /\ f \notin registered
    /\ request' = [request EXCEPT ![r] = [step |-> "insert", firm |-> f, wallet |-> w]]
    /\ UNCHANGED <<registered, rows>>

\* The columns are UNIQUE as well.  The link is a second transaction.
register_enterprise(r) ==
    LET f == request[r].firm
        w == request[r].wallet
    IN  /\ request[r].step = "insert"
        /\ registered' = registered \cup {f}
        /\ request' = [request EXCEPT ![r] =
                           IF f \in registered \/ w = NoWallet THEN NoRequest
                           ELSE [step |-> "link", firm |-> f, wallet |-> w]]
        /\ UNCHANGED rows

\* POST /v1/wallet/link, and no other way to a wallet, looks for another firm.
CheckAddress(r, f, w) ==
    /\ request[r] = NoRequest
    /\ f \in registered
    /\ \A g \in registered \ {f} : rows[g].wallet # w
    /\ request' = [request EXCEPT ![r] = [step |-> "link", firm |-> f, wallet |-> w]]
    /\ UNCHANGED <<registered, rows>>

\* get_by_id and the method of the aggregate, up to update().
Loaded(r, kind, f, enterprise) ==
    /\ f \in registered
    /\ request' = [request EXCEPT ![r] =
                       [step |-> "update", kind |-> kind, firm |-> f,
                        loaded |-> rows[f], enterprise |-> enterprise]]
    /\ UNCHANGED <<registered, rows>>

submit_kyc(r, f, files) ==
    /\ request[r] = NoRequest
    /\ rows[f].kyc = "PENDING"
    /\ Loaded(r, "kyc", f, [rows[f] EXCEPT !.kyc = "KYC_SUBMITTED", !.docs = files])

update_agent_config(r, f, config) ==
    /\ request[r] = NoRequest
    /\ Loaded(r, "config", f, [rows[f] EXCEPT !.config = config])

\* The steps before a link: none, a registration, or the test of the address.
MayLink(r, f, w) == request[r] \in {NoRequest, [step |-> "link", firm |-> f, wallet |-> w]}

\* Mutant: a wallet already linked is no conflict.
LinkAnyway(r, f, w) ==
    /\ MayLink(r, f, w)
    /\ Loaded(r, "link", f, [rows[f] EXCEPT !.wallet = w])

\* Also the link a Magic login makes for a firm that has no wallet.
link_wallet(r, f, w) ==
    /\ MayLink(r, f, w)
    /\ rows[f].wallet = NoWallet
    /\ Loaded(r, "link", f, [rows[f] EXCEPT !.wallet = w])

unlink_wallet(r, f) ==
    /\ request[r] = NoRequest
    /\ rows[f].wallet # NoWallet
    /\ Loaded(r, "unlink", f, [rows[f] EXCEPT !.wallet = NoWallet])

\* update() selects the row again: a statement of its own under READ COMMITTED.
Reselect(r) ==
    LET q == request[r]
    IN  /\ q.step = "update"
        /\ request' = [request EXCEPT ![r] =
                           [step |-> "commit", kind |-> q.kind, firm |-> q.firm,
                            loaded |-> q.loaded, enterprise |-> q.enterprise,
                            existing |-> rows[q.firm]]]
        /\ UNCHANGED <<registered, rows>>

\* _enterprise_to_model assigns every column; UPDATE names those that changed.
Merged(row, existing, enterprise) ==
    [kyc    |-> IF enterprise.kyc # existing.kyc THEN enterprise.kyc ELSE row.kyc,
     docs   |-> IF enterprise.docs # existing.docs THEN enterprise.docs ELSE row.docs,
     config |-> IF enterprise.config # existing.config
                THEN enterprise.config ELSE row.config,
     wallet |-> IF enterprise.wallet # existing.wallet
                THEN enterprise.wallet ELSE row.wallet]

Commit(r) ==
    LET q == request[r]
    IN  /\ q.step = "commit"
        /\ rows' = [rows EXCEPT ![q.firm] = Merged(@, q.existing, q.enterprise)]
        /\ request' = [request EXCEPT ![r] = NoRequest]
        /\ UNCHANGED registered

\* Refused (no proof of the address, an escrow in progress, a conflict in a
\* state loaded), an error, or the worker dies.
FailRequest(r) ==
    /\ request[r] # NoRequest
    /\ request' = [request EXCEPT ![r] = NoRequest]
    /\ UNCHANGED <<registered, rows>>

EnterpriseNext ==
    \E r \in Requests :
        \/ register_enterprise(r) \/ Reselect(r) \/ Commit(r) \/ FailRequest(r)
        \/ \E f \in Firms :
            \/ unlink_wallet(r, f)
            \/ \E w \in Wallets \cup {NoWallet} : CheckUnique(r, f, w)
            \/ \E w \in Wallets : CheckAddress(r, f, w) \/ link_wallet(r, f, w)
            \/ \E files \in Files : submit_kyc(r, f, files)
            \/ \E config \in Configs : update_agent_config(r, f, config)

EnterpriseSpec == EnterpriseInit /\ [][EnterpriseNext]_enterpriseVars

-----------------------------------------------------------------------------
\* What a request may change in a row that is as it read it: the columns that
\* are its own; no KYC submission is undone or replaced, and no wallet that is
\* linked is replaced, which takes an unlink first.
Lawful(kind, row, new) ==
    /\ kind # "kyc" => new.kyc = row.kyc /\ new.docs = row.docs
    /\ kind # "config" => new.config = row.config
    /\ kind \notin {"link", "unlink"} => new.wallet = row.wallet
    /\ row.kyc = "KYC_SUBMITTED" => new.kyc = row.kyc /\ new.docs = row.docs
    /\ row.wallet \in Wallets => new.wallet \in {row.wallet, NoWallet}

\* A row is damaged by stale writes only: although every request writes the
\* whole row, and merges it with a second reading, one that commits to a row
\* holding what it loaded, whatever was written and undone in between, changes
\* it lawfully.
OnlyStaleWritesUndo ==
    [][\A r \in Requests :
        LET q == request[r]
        IN  q.step = "commit" /\ request'[r] # q /\ q.loaded = rows[q.firm]
            => Lawful(q.kind, rows[q.firm], rows'[q.firm])]_enterpriseVars
=============================================================================
