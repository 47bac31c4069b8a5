------------------------------ MODULE Worklist ------------------------------
(***************************************************************************)
(* The front page never shows a number alone: from the figures of a period *)
(* and the state of the connection it makes a list of what is to be done,  *)
(* the gravest first, each with a place to do it.                          *)
(*                                                                         *)
(* Money is text, [val, scale] for val / 10^scale, and is subtracted       *)
(* exactly; a figure that is missing is an empty set.                      *)
(***************************************************************************)
EXTENDS Integers, Sequences, SequencesExt

Tach(text) == IF text = {} THEN [val |-> 0, scale |-> 0] ELSE CHOOSE m \in text : TRUE
At(m, scale) == m.val * 10 ^ (scale - m.scale)

\* Without zeros at the end of the decimals.
DinhDang(val, scale) ==
  LET Fits(k) == val % 10 ^ k = 0
      most == CHOOSE k \in 0 .. scale : Fits(k) /\ \A j \in k + 1 .. scale : ~Fits(j)
  IN [val |-> val \div 10 ^ most, scale |-> scale - most]
TruTienChuoi(a, b) ==
  LET pa == Tach(a)
      pb == Tach(b)
      scale == IF pa.scale > pb.scale THEN pa.scale ELSE pb.scale
  IN DinhDang(At(pa, scale) - At(pb, scale), scale)

\* byChieu: the figures of the directions that have invoices.
OrZero(n) == IF n = {} THEN 0 ELSE CHOOSE m \in n : TRUE
Count(byChieu, field) == FoldLeft(LAMBDA n, c : n + OrZero(c[field]), 0, byChieu)
Thue(byChieu, chieu) ==
  LET of == SelectSeq(byChieu, LAMBDA c : c.chieu = chieu)
  IN IF of = <<>> THEN {} ELSE of[1].thueDaLoai

(* Replaced invoices take tax off both ways: less to deduct is more to     *)
(* pay, less that was sold is less to pay.  None replaced: no difference.  *)
DeltaThuePhaiNop(byChieu) ==
  IF \E i \in DOMAIN byChieu : OrZero(byChieu[i].soLoaiKhoiTong) > 0
  THEN {TruTienChuoi(Thue(byChieu, "purchase"), Thue(byChieu, "sold"))} ELSE {}

LienKetBiSua(days) == [page |-> "invoices", biSua |-> TRUE, days |-> days]

(* Without a connection the figures mean nothing: one thing to do, and a   *)
(* button only for those who may.                                          *)
ViecCanXuLy(nguon) ==
  LET c == nguon.byChieu
      Viec(ma, when, den, sacDo) ==
        IF when THEN <<[ma |-> ma, den |-> {den}, sacDo |-> sacDo]>> ELSE <<>>
      denBiSua == LienKetBiSua(nguon.days)
      zero == [val |-> 0, scale |-> 0]
  IN IF ~nguon.daKetNoi
     THEN << [ma |-> "chua_ket_noi", sacDo |-> "canh_bao",
              den |-> IF nguon.coQuyenKetNoi THEN {[page |-> "tax-accounts"]} ELSE {}] >>
     ELSE Viec("lech_thue_phai_nop", DeltaThuePhaiNop(c) \notin {{}, {zero}}, denBiSua, "nghiem_trong")
          \o Viec("bi_thay_the", Count(c, "soLoaiKhoiTong") > 0, denBiSua, "canh_bao")
          \o Viec("ky_khac_bi_sua", nguon.soBiSuaKyKhac > 0, LienKetBiSua({}), "canh_bao")
          \o Viec("bi_dieu_chinh", Count(c, "soDuocDieuChinh") > 0, denBiSua, "info")
          \o Viec("ma_la", Count(c, "soMaLa") > 0, [page |-> "invoices"], "trung_tinh")
-----------------------------------------------------------------------------
Taxes == {{}, {[val |-> -150, scale |-> 2]}, {[val |-> 30, scale |-> 1]}, {[val |-> 3, scale |-> 0]}}
Figures(chieu) ==
  [chieu : {chieu}, thueDaLoai : Taxes, soLoaiKhoiTong : {{}, {0}, {2}},
   soDuocDieuChinh : {{}, {1}}, soMaLa : {{0}}]
Periods == {<<>>} \cup {<<m>> : m \in Figures("purchase")}
             \cup {<<m, b>> : m \in Figures("purchase"), b \in Figures("sold")}
Severity == <<"nghiem_trong", "canh_bao", "info", "trung_tinh">>

(* A list is empty only if nothing was replaced, adjusted or changed in    *)
(* another period; it never repeats a thing and never puts a lesser one    *)
(* first; the difference in tax to pay is exact and of the right sign,     *)
(* and only replaced invoices make one; other periods are not looked for   *)
(* within this one's days; nobody is sent where they may not go            *)
(* (viecCanXuLy, deltaThuePhaiNop).                                        *)
ASSUME WorklistAssumption ==
  \A c \in Periods, k \in {0, 4} :
    LET Todo(connected, may) ==
          ViecCanXuLy([byChieu |-> c, daKetNoi |-> connected, soBiSuaKyKhac |-> k,
                       coQuyenKetNoi |-> may, days |-> {1, 31}])
        todo == Todo(TRUE, FALSE)
        delta == DeltaThuePhaiNop(c)
        Rank(i) == CHOOSE r \in DOMAIN Severity : Severity[r] = todo[i].sacDo
    IN /\ (todo = <<>>) = (/\ k = 0
                          /\ \A i \in DOMAIN c : /\ c[i].soDuocDieuChinh = {}
                                                 /\ c[i].soLoaiKhoiTong # {2})
       /\ \A i, j \in DOMAIN todo : i < j => todo[i].ma # todo[j].ma /\ Rank(i) <= Rank(j)
       /\ \A d \in delta : At(d, 2) = At(Tach(Thue(c, "purchase")), 2) - At(Tach(Thue(c, "sold")), 2)
       /\ (delta = {}) = \A i \in DOMAIN c : c[i].soLoaiKhoiTong # {2}
       /\ \A i \in DOMAIN todo : todo[i].ma = "ky_khac_bi_sua" => todo[i].den = {LienKetBiSua({})}
       /\ \A may \in BOOLEAN : Len(Todo(FALSE, may)) = 1 /\ (Todo(FALSE, may)[1].den = {}) = ~may
=============================================================================
