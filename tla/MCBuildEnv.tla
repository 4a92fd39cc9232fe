---------------------------- MODULE MCBuildEnv ----------------------------
(***************************************************************************)
(* Two jobs of the workflow fetch two files of at most two versions, and   *)
(* up to three starts of the container, one of which may be killed, work   *)
(* on the volumes.  The release of Buildroot is the one the patches were   *)
(* written for, or "odd": one anchor differs (espflash.mk uses ?= where    *)
(* the patch looks for =).  The volumes are empty, or hold the tree of an  *)
(* older version of customizeBuildroot, with the overrides it wrote then.  *)
(* Of each file only the lines the patches look for are kept.              *)
(***************************************************************************)
EXTENDS BuildEnv

\* The files of the release, reduced to the anchors of the patches.
MCNormal ==
    [f \in {"Config.in", "Makefile", "linux/Config.in", "linux/7.1.13", "linux-headers/7.1.13",
            "linux-headers/Config.in.host", "toolchain/Config.in", "package/Config.in",
            "linux-tool-gpio.mk.in", "linux-tool-pci.mk.in",
            "systemd/Config.in", "systemd/systemd.mk", "linux-pam/Config.in",
            "linux-pam/linux-pam.mk", "espflash/Config.in", "espflash/espflash.mk",
            "ruby/Config.in", "ruby/ruby.mk", "rust/rust.mk", "rust-bin/rust-bin.mk",
            "rust-bindgen/rust-bindgen.mk"} |->
     CASE f = "Config.in" -> <<"menu", "endmenu", "menu", "endmenu">>
       [] f = "Makefile" -> <<".PHONY: target-finalize", "target-finalize:",
              "rm -rf usr/include usr/doc", "rm -rf usr/man", "rm -rf gtk-doc",
              "rmdir usr/share", ".PHONY: list-defconfigs">>
       [] f = "linux/Config.in" -> <<"Latest version (7.1)", "select AT_LEAST_7_1", "default 7.1.13">>
       [] f = "linux-headers/Config.in.host" ->
            <<"default KERNEL_HEADERS_7_1", "config KERNEL_HEADERS_7_1", "select HEADERS_LATEST",
              "config CUSTOM_7_1 or later", "default 7.1.13">>
       [] f = "toolchain/Config.in" ->
            <<"config AT_LEAST_7_1", "select AT_LEAST_LATEST", "config AT_LEAST", "default 7.1">>
       [] f = "linux-tool-gpio.mk.in" -> <<"if ! grep install">>
       [] f = "linux-tool-pci.mk.in" -> <<"define PCI_BUILD_CMDS", "define PCI_INSTALL_TARGET_CMDS", "if ! grep install">>
       [] f = "systemd/Config.in" -> <<"if BR2_PACKAGE_SYSTEMD", "endif">>
       [] f = "systemd/systemd.mk" -> <<"SYSTEMD_VERSION =", "SYSTEMD_SITE =", MESON_PACKAGE_EVAL>>
       [] f = "linux-pam/Config.in" -> <<"if BR2_PACKAGE_LINUX_PAM", "endif">>
       [] f = "linux-pam/linux-pam.mk" -> <<"LINUX_PAM_VERSION =", "LINUX_PAM_SOURCE =", MESON_PACKAGE_EVAL>>
       [] f = "espflash/Config.in" -> <<"config BR2_PACKAGE_ESPFLASH">>
       [] f = "espflash/espflash.mk" -> <<"ESPFLASH_VERSION =", "ESPFLASH_SITE =">>
       [] f = "ruby/Config.in" -> <<"config BR2_PACKAGE_RUBY">>
       [] f = "ruby/ruby.mk" -> <<"RUBY_SOURCE =", "RUBY_CONF_OPTS = --disable-yjit", "HOOKS += RUBY_REMOVE_RUBYGEMS">>
       [] f \in {"rust/rust.mk", "rust-bin/rust-bin.mk", "rust-bindgen/rust-bindgen.mk"} -> <<"VERSION = stock">>
       [] OTHER -> <<"stock">>]

MCStock == [normal |-> MCNormal,
            odd |-> [MCNormal EXCEPT !["espflash/espflash.mk"] = <<"ESPFLASH_VERSION ?=", "ESPFLASH_SITE =">>]]
MCStockPatches == [r \in {"normal", "odd"} |->
                    ("openvmtools" :> << <<"other">> >>) @@ ("espflash/4.0.1" :> <<>>)]

\* The archive of the release, in the order in which tar unpacks it.
MCArchive == <<"Config.in", "Makefile", "linux/7.1.13", "linux/Config.in",
   "package/Config.in", "espflash/4.0.1", "espflash/Config.in", "espflash/espflash.mk",
   "linux-headers/7.1.13", "linux-headers/Config.in.host", "linux-pam/Config.in", "linux-pam/linux-pam.mk",
   "linux-tool-gpio.mk.in", "linux-tool-pci.mk.in", "openvmtools",
   "ruby/Config.in", "ruby/ruby.mk", "rust-bin/rust-bin.mk", "rust-bindgen/rust-bindgen.mk",
   "rust/rust.mk", "systemd/Config.in", "systemd/systemd.mk", "toolchain/Config.in">>

NoTree == [f \in {} |-> <<>>]

\* The tree as the version before this one left it.
MCLegacy ==
    [MCNormal EXCEPT
        !["Makefile"] = SubSeq(@, 1, 2) \o <<"rm -rf usr/include", "# rm -rf usr/doc">> \o SubSeq(@, 4, Len(@)),
        !["systemd/Config.in"] = patch_systemd_config_in(@),
        !["systemd/systemd.mk"] =
            <<"SYSTEMD_VERSION =">> \o SYSTEMD_VERSION_OVERRIDE_MK \o <<"SYSTEMD_SITE =">>
               \o SYSTEMD_OVERRIDE_MK_TAIL_LEGACY \o <<MESON_PACKAGE_EVAL>>,
        !["linux-pam/linux-pam.mk"] =
            <<"LINUX_PAM_VERSION =">> \o LINUX_PAM_VERSION_OVERRIDE_MK \o <<"LINUX_PAM_SOURCE =">>
               \o LINUX_PAM_OVERRIDE_MK_TAIL_LEGACY \o <<MESON_PACKAGE_EVAL>>]

MCVolumes == {[tree |-> NoTree, patches |-> NoTree, base |-> "none"],
              [tree |-> MCLegacy, patches |-> MCStockPatches.normal, base |-> "normal"]}

MCPackages == <<"gcc-standalone-toolchain", "kmscon", "uutils-coreutils">>
MCFiles == <<"llvm.sh", "imagebuilder">>
=============================================================================
