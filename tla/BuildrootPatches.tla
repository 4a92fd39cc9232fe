--------------------------- MODULE BuildrootPatches ---------------------------
(***************************************************************************)
(* customizeBuildroot/patches: what each patch makes of the text of its    *)
(* file.  Every patch may meet its own result, that of an earlier version, *)
(* or a text that was left unfinished.                                     *)
(***************************************************************************)
EXTENDS PatchText

-----------------------------------------------------------------------------
(* custom_late.py and install_fetch_hash.py                                *)

LATE_CUSTOM_SKIP_PACKAGES == {"uutils-coreutils"}
LATE_CUSTOM_LIB_PACKAGES == {"gcc-standalone-toolchain"}

late_line(p) == (IF p \in LATE_CUSTOM_LIB_PACKAGES THEN "LIBS += " ELSE "PACKAGES += ") \o p

\* packages: the names iter_custom_packages() returns.
custom_late_mk_text(packages) ==
    LET late[n \in 0..Len(packages)] ==
            IF n = 0 THEN <<>>
            ELSE IF packages[n] \in LATE_CUSTOM_SKIP_PACKAGES THEN late[n - 1]
            ELSE Append(late[n - 1], late_line(packages[n]))
    IN  <<"LIBS :=", "PACKAGES :=">> \o late[Len(packages)]
            \o <<"ifeq LATE_CUSTOM_APPLY", "foreach -install", "endif">>

\* The include lines at the end of the Makefile, each below a comment.
CUSTOM_LATE_INCLUDE_MARKER == "include package/custom-late.mk"
FETCH_HASH_INCLUDE_MARKER == "include package/fetch-hash.mk"
CUSTOM_LATE_INCLUDE_BLOCK == <<"# custom-late.mk", CUSTOM_LATE_INCLUDE_MARKER>>
FETCH_HASH_INCLUDE_BLOCK == <<"# fetch-hash.mk", FETCH_HASH_INCLUDE_MARKER>>

included(text, block) == IF Contains(text, block[2]) THEN text ELSE text \o block

\* The files customizeBuildroot copies to package/.
fetch_hash_mk == <<"FETCH_HASH :=", "foreach PACKAGES_ALL">>
fetch_hash_helper == <<"fetch", "append_hash">>

-----------------------------------------------------------------------------
(* man_docs.py                                                             *)

KEEP_MAN_OPTION_BLOCK == <<"config BR2_KEEP_MAN_PAGES_DOCS", "bool keep docs">>
USR_DOC_COMMENT == "#\trm -rf usr/doc"
KEEP_DOCS_IFNEQ == "ifneq BR2_KEEP_MAN_PAGES_DOCS"

find_last_endmenu(text) == SelectLastInSeq(text, LAMBDA l : l = "endmenu")

patch_config_in(text) ==
    IF Contains(text, KEEP_MAN_OPTION_BLOCK[1]) THEN text
    ELSE IF find_last_endmenu(text) = 0 THEN SystemExit
    ELSE InsertBlock(text, find_last_endmenu(text), KEEP_MAN_OPTION_BLOCK)

\* Recipe commands.  A continued command is one line here, so the first rm -rf
\* either names usr/doc or does not.
RmRf == {"rm -rf usr/include usr/doc", "rm -rf usr/include", "rm -rf usr/man"}
Recipe == RmRf \cup {"rm -rf gtk-doc", "rmdir usr/share"}
PHONY == {".PHONY: target-finalize", ".PHONY: list-defconfigs"}

\* The first of these lines of text that is in S, or 0.
FirstIn(text, from, to, S) == SelectInSubSeq(text, from, to, LAMBDA l : l \in S)

\* The target-finalize rule: from its .PHONY: to the line before the next one.
SpanFrom(text, start) ==
    [start |-> start,
     end |-> IF FirstIn(text, start + 1, Len(text), PHONY) = 0 THEN Len(text)
             ELSE FirstIn(text, start + 1, Len(text), PHONY) - 1]
find_target_finalize_span(text) ==
    SpanFrom(text, FirstIn(text, 1, Len(text), {".PHONY: target-finalize"}))

InRule(text, span, S) == IF span.start = 0 THEN 0 ELSE FirstIn(text, span.start, span.end, S)

\* The first rm -rf below the header of the rule, or 0.
FirstRm(text, rule, span) == IF rule = 0 THEN 0 ELSE FirstIn(text, rule + 1, span.end, RmRf)

StripAt(text, rm, after) ==
    IF rm = 0 THEN SystemExit
    ELSE IF text[rm] = "rm -rf usr/include usr/doc"
         THEN InsertBlock(RemoveAt(text, rm), rm, <<"rm -rf usr/include", USR_DOC_COMMENT>>)
    ELSE IF after = USR_DOC_COMMENT THEN text
    ELSE IF after = "# rm -rf usr/doc" THEN ReplaceAt(text, rm + 1, USR_DOC_COMMENT)
    ELSE SystemExit

LineAfter(text, i) == IF i < Len(text) THEN text[i + 1] ELSE ""

strip_usr_doc_from_first_rm(text, span) ==
    LET rm == FirstRm(text, InRule(text, span, {"target-finalize:"}), span)
    IN  StripAt(text, rm, LineAfter(text, rm))

\* The purge runs from the rm -rf of usr/man over recipe lines to the rmdir.
WrapAt(text, man, rmdir) ==
    IF man = 0 THEN SystemExit
    ELSE IF text[man - 1] = KEEP_DOCS_IFNEQ THEN text
    ELSE IF rmdir = 0 \/ ~(ToSet(SubSeq(text, man, rmdir)) \subseteq Recipe)
                      \/ ~Contains(SubSeq(text, man, rmdir), "rm -rf gtk-doc") THEN SystemExit
    ELSE SubSeq(text, 1, man - 1) \o <<KEEP_DOCS_IFNEQ>> \o SubSeq(text, man, rmdir)
             \o <<"endif">> \o SubSeq(text, rmdir + 1, Len(text))

wrap_man_purge_block(text, span) ==
    LET man == InRule(text, span, {"rm -rf usr/man"})
    IN  WrapAt(text, man, IF man = 0 THEN 0
                          ELSE FirstIn(text, man, span.end, {"rmdir usr/share"}))

patch_makefile(text) ==
    Then(strip_usr_doc_from_first_rm(text, find_target_finalize_span(text)),
         LAMBDA t : wrap_man_purge_block(t, find_target_finalize_span(t)))

-----------------------------------------------------------------------------
(* linux_tools.py                                                          *)

PCI_BUILD_CMDS_NEW == "define PCI_BUILD_CMDS pci_endpoint"
PCI_INSTALL_CMDS_NEW == "define PCI_INSTALL_TARGET_CMDS pci_endpoint"

patch_linux_tool_pci_mk_in(text) ==
    IF \/ ToSet(text) \cap {PCI_BUILD_CMDS_NEW, PCI_INSTALL_CMDS_NEW} # {}
       \/ ~Contains(text, "define PCI_BUILD_CMDS")
    THEN text
    ELSE ReplaceAll(ReplaceAll(text, "define PCI_BUILD_CMDS", PCI_BUILD_CMDS_NEW),
                    "define PCI_INSTALL_TARGET_CMDS", PCI_INSTALL_CMDS_NEW)

patch_linux_tools_grep_install(text) ==
    ReplaceAll(text, "if ! grep install", "if ! test -f")

-----------------------------------------------------------------------------
(* openvmtools.py and espflash.py: a directory is the sequence of its      *)
(* patch files, numbered from 1                                            *)

OPENVMTOOLS_C23_PATCH == <<"-()", "+(const char *)">>
ESPFLASH_BAIL_PATCH == <<"-bail!", "+{ bail! }">>

patch_present(dir, fix) == \E i \in DOMAIN dir : ToSet(fix) \subseteq ToSet(dir[i])

\* The new file gets the number after the highest one.
patch_added(dir, fix) == IF patch_present(dir, fix) THEN dir ELSE Append(dir, fix)

-----------------------------------------------------------------------------
(* The version overrides: systemd.py, linux_pam.py, espflash.py, ruby.py   *)

SYSTEMD_VERSION_OVERRIDE_KCONFIG == <<"config SYSTEMD_VERSION_OVERRIDE", "string">>
SYSTEMD_VERSION_OVERRIDE_MK == <<"SYSTEMD_VERSION_STOCK :=", "ifneq SYSTEMD_VERSION_OVERRIDE">>
SYSTEMD_NO_HASH == "BR_NO_CHECK_HASH_FOR += systemd"
SYSTEMD_OVERRIDE_MK_TAIL_LEGACY ==
    <<"# skip packaged hashes", SYSTEMD_NO_HASH, "SYSTEMD_CONF_OPTS := $(filter-out", "endif">>
SYSTEMD_OVERRIDE_MK_TAIL ==
    <<"# dropped options", "SYSTEMD_CONF_OPTS := $(filter-out", "endif">>

patch_systemd_config_in(text) ==
    insert_kconfig_after_if(text, "if BR2_PACKAGE_SYSTEMD",
        SYSTEMD_VERSION_OVERRIDE_KCONFIG[1], SYSTEMD_VERSION_OVERRIDE_KCONFIG)

\* The version block, then the tail an earlier version left is taken out.
patch_systemd_mk(text) ==
    LET version == Unless(SYSTEMD_VERSION_OVERRIDE_MK[1], text,
                      <<"SYSTEMD_VERSION =", "SYSTEMD_SITE =">>,
                      <<"SYSTEMD_VERSION =">> \o SYSTEMD_VERSION_OVERRIDE_MK
                                              \o <<"SYSTEMD_SITE =">>)
        stripped(t) == ReplaceFirstSubSeq(<<>>, SYSTEMD_OVERRIDE_MK_TAIL_LEGACY, t)
        tail(t) == insert_before_meson_eval(
                      drop_br_no_check_hash_for(stripped(t), SYSTEMD_NO_HASH),
                      SYSTEMD_OVERRIDE_MK_TAIL, "SYSTEMD_CONF_OPTS := $(filter-out")
    IN  Then(version, tail)

LINUX_PAM_VERSION_OVERRIDE_KCONFIG == <<"config LINUX_PAM_VERSION_OVERRIDE", "string">>
LINUX_PAM_VERSION_OVERRIDE_MK ==
    <<"LINUX_PAM_VERSION_STOCK :=", "ifneq LINUX_PAM_VERSION_OVERRIDE">>
LINUX_PAM_NO_HASH == "BR_NO_CHECK_HASH_FOR += linux-pam"
LINUX_PAM_OVERRIDE_MK_TAIL_LEGACY == <<"ifneq LINUX_PAM_VERSION", LINUX_PAM_NO_HASH, "endif">>

patch_linux_pam_config_in(text) ==
    insert_kconfig_after_if(text, "if BR2_PACKAGE_LINUX_PAM",
        LINUX_PAM_VERSION_OVERRIDE_KCONFIG[1], LINUX_PAM_VERSION_OVERRIDE_KCONFIG)

patch_linux_pam_mk(text) ==
    LET version == Unless(LINUX_PAM_VERSION_OVERRIDE_MK[1], text,
                      <<"LINUX_PAM_VERSION =", "LINUX_PAM_SOURCE =">>,
                      <<"LINUX_PAM_VERSION =">> \o LINUX_PAM_VERSION_OVERRIDE_MK
                                                \o <<"LINUX_PAM_SOURCE =">>)
        stripped(t) == drop_br_no_check_hash_for(
                           ReplaceFirstSubSeq(<<>>, LINUX_PAM_OVERRIDE_MK_TAIL_LEGACY, t),
                           LINUX_PAM_NO_HASH)
    IN  Then(version, stripped)

ESPFLASH_VERSION_OVERRIDE_KCONFIG == <<"config ESPFLASH_VERSION_OVERRIDE", "string">>
ESPFLASH_VERSION_OVERRIDE_MK == <<"ifneq ESPFLASH_VERSION_OVERRIDE", "ESPFLASH_VERSION = qstrip">>

patch_espflash_config_in(text) ==
    append_kconfig_if_block(text, "if BR2_PACKAGE_ESPFLASH",
        ESPFLASH_VERSION_OVERRIDE_KCONFIG[1], ESPFLASH_VERSION_OVERRIDE_KCONFIG)

patch_espflash_mk(text) ==
    Unless(ESPFLASH_VERSION_OVERRIDE_MK[1], text,
           <<"ESPFLASH_VERSION =", "ESPFLASH_SITE =">>,
           <<"ESPFLASH_VERSION =">> \o ESPFLASH_VERSION_OVERRIDE_MK \o <<"ESPFLASH_SITE =">>)

RUBY_KCONFIG == <<"config RUBY_VERSION_OVERRIDE", "config RUBY_YJIT">>
RUBY_VERSION_OVERRIDE_MK == <<"ifneq RUBY_VERSION_OVERRIDE", "RUBY_VERSION = qstrip">>
RUBY_CONF_OPTS_OLD == <<"RUBY_CONF_OPTS = --disable-yjit">>
RUBY_CONF_OPTS_NEW == <<"RUBY_CONF_OPTS = --disable-rpath", "ifeq RUBY_YJIT">>
RUBY_REMOVE_HOOK_OLD == <<"HOOKS += RUBY_REMOVE_RUBYGEMS">>
RUBY_REMOVE_HOOK_NEW == <<"ifneq RUBY_RUBYGEMS", "HOOKS += RUBY_REMOVE_RUBYGEMS", "endif">>

patch_ruby_config_in(text) ==
    append_kconfig_if_block(text, "if BR2_PACKAGE_RUBY", RUBY_KCONFIG[1], RUBY_KCONFIG)

\* Mutant of patch_ruby_mk: it does not look for the new options.
OptionsAlways(text) ==
    LET version == Unless(RUBY_VERSION_OVERRIDE_MK[1], text, <<"RUBY_SOURCE =">>,
                          <<"RUBY_SOURCE =">> \o RUBY_VERSION_OVERRIDE_MK)
        opts(t) == Replaced(t, RUBY_CONF_OPTS_OLD, RUBY_CONF_OPTS_NEW)
    IN  Then(version, opts)

patch_ruby_mk(text) ==
    LET version == Unless(RUBY_VERSION_OVERRIDE_MK[1], text, <<"RUBY_SOURCE =">>,
                          <<"RUBY_SOURCE =">> \o RUBY_VERSION_OVERRIDE_MK)
        opts(t) == Unless(RUBY_CONF_OPTS_NEW[2], t, RUBY_CONF_OPTS_OLD, RUBY_CONF_OPTS_NEW)
        hook(t) == IF Holds(t, RUBY_REMOVE_HOOK_NEW) THEN t
                   ELSE Replaced(t, RUBY_REMOVE_HOOK_OLD, RUBY_REMOVE_HOOK_NEW)
    IN  Then(Then(version, opts), hook)

-----------------------------------------------------------------------------
(* kernel_support.py: 7.1 is the last series of the release, 7.2 is added  *)

\* The first substitution may find nothing to replace.
patch_kernel_headers_host(text) ==
    LET default  == ReplaceAll(text, "default KERNEL_HEADERS_7_1", "default KERNEL_HEADERS_7_2")
        headers  == Unless("config KERNEL_HEADERS_7_2", default,
                        <<"config KERNEL_HEADERS_7_1", "select HEADERS_LATEST">>,
                        <<"config KERNEL_HEADERS_7_1", "config KERNEL_HEADERS_7_2",
                          "select HEADERS_LATEST">>)
        custom(t) == Unless("config CUSTOM_7_2", t, <<"config CUSTOM_7_1 or later">>,
                        <<"config CUSTOM_7_2", "config CUSTOM_7_1">>)
        latest(t) == Unless("default 7.2.9", t, <<"default 7.1.13">>,
                        <<"default 7.2.9", "default 7.1.13">>)
    IN  Then(Then(headers, custom), latest)

patch_toolchain_headers_at_least(text) ==
    LET at_least  == Unless("config AT_LEAST_7_2", text,
                        <<"config AT_LEAST_7_1", "select AT_LEAST_LATEST">>,
                        <<"config AT_LEAST_7_1", "config AT_LEAST_7_2",
                          "select AT_LEAST_LATEST">>)
        string(t) == Unless("default 7.2", t, <<"config AT_LEAST", "default 7.1">>,
                        <<"config AT_LEAST", "default 7.2", "default 7.1">>)
    IN  Then(at_least, string)

\* Three substitutions, then all three results are looked for.
patch_linux_latest_version(text) ==
    LET done == ReplaceAll(ReplaceAll(ReplaceAll(text,
                    "Latest version (7.1)", "Latest version (7.2)"),
                    "select AT_LEAST_7_1", "select AT_LEAST_7_2"),
                    "default 7.1.13", "default 7.2.9")
    IN  IF {"Latest version (7.2)", "select AT_LEAST_7_2", "default 7.2.9"}
               \subseteq ToSet(done)
        THEN done ELSE SystemExit

-----------------------------------------------------------------------------
(* host_rust.py                                                            *)

\* The assignments that may stand for "KEY = ..." in one of the three files.
Assignments == {"VERSION = stock", "VERSION = env"}

\* The first assignment of the key gets the value of the environment.
set_makefile_assignment(text) ==
    LET i == SelectInSeq(text, LAMBDA l : l \in Assignments) IN
    IF i = 0 THEN SystemExit ELSE ReplaceAt(text, i, "VERSION = env")
==============================================================================
