-------------------------- MODULE SettingsCatalog --------------------------
(***************************************************************************)
(* The forms of the settings page, by what tells their behaviour apart.  A *)
(* form has an ordinary field "a" and a second field "b", which is a       *)
(* secret when the form has one: a secret is always shown blank (the       *)
(* server hides it or the effect clears it).  checked: "saved" is only     *)
(* said when every answer says success.  validates, normalizes: what is    *)
(* done to the fields before they are sent.  all: the ordinary field is    *)
(* sent even if it did not change.  needsKey: when the secret must be      *)
(* typed unless one is known to be stored.  rebases: the fields that count *)
(* as loaded as soon as they are saved.  keeps: a secret left blank is     *)
(* said to stay; the general form says that its password is disabled then, *)
(* although a blank one is never sent.                                     *)
(***************************************************************************)
Field == {"a", "b"}

Plain(section) ==
    [section |-> section, secret |-> FALSE, checked |-> FALSE, validates |-> FALSE,
     normalizes |-> FALSE, all |-> FALSE, needsKey |-> "never", rebases |-> {},
     keeps |-> TRUE]

SettingsGeneral == [Plain("operation") EXCEPT !.secret = TRUE, !.keeps = FALSE]
SettingsLog == Plain("operation")
SettingsCreditLimit == Plain("operation")
SettingsMonitoring == [Plain("operation") EXCEPT !.validates = TRUE, !.normalizes = TRUE]
SettingsChannelAffinityQuick == [Plain("operation") EXCEPT !.validates = TRUE, !.normalizes = TRUE]
SettingsPerformance == Plain("performance")
SettingsPaymentGatewayAlipay ==
    [Plain("payment") EXCEPT !.secret = TRUE, !.checked = TRUE, !.needsKey = "always",
                             !.rebases = {"a"}]
SettingsPaymentGatewayEpay ==
    [Plain("payment") EXCEPT !.secret = TRUE, !.checked = TRUE, !.all = TRUE,
                             !.needsKey = "enabled"]

(* Forms that the repository keeps and no page shows at present; those for *)
(* sensitive words, drawing and the dashboard are like SettingsLog.        *)
SettingClaudeModel == Plain("model")
SettingGeminiModel == [Plain("model") EXCEPT !.validates = TRUE]
SettingGlobalModel == [Plain("model") EXCEPT !.normalizes = TRUE]
SettingModelDeployment == [Plain("deployment") EXCEPT !.secret = TRUE, !.rebases = Field]
SettingsRequestRateLimit == [Plain("rate") EXCEPT !.checked = TRUE]
GroupRatioSettings == [Plain("ratio") EXCEPT !.checked = TRUE, !.validates = TRUE]
=============================================================================
